---- MODULE Spec2Model ----
(***************************************************************************)
(* Verification model of pytest-shell-utilities: the subprocess execution  *)
(* engine (SubprocessImpl), the synchronous runner (Subprocess.run), the   *)
(* daemon supervisor (DaemonImpl / Daemon) and the process tree            *)
(* termination algorithm (utils/processes.py), run against a model of the  *)
(* operating system's process table.                                       *)
(***************************************************************************)
EXTENDS Integers, Sequences, FiniteSets, TLC

(***************************************************************************)
(* Bounds of the model.                                                    *)
(***************************************************************************)
\* Root processes (Popen spawns) available to one behaviour.
MaxRoots == 2
\* Longest process list handed to terminate_process_list directly.
MaxListLen == 2
\* Ports a daemon can be configured to listen on.
MaxPorts == 2
\* Processes forked by the spawned processes in one behaviour.
MaxDesc == 2
\* Calls the test code makes on the factory in one behaviour.
MaxCalls == 3
\* Largest max_start_attempts value the caller or the factory configures.
MaxAttempts == 2
\* start_timeout of the daemon, in clock ticks.
StartTimeout == 1

(***************************************************************************)
(* The operating system: a table of processes.  Pid 0 stands for the test  *)
(* process itself (the parent of every Popen child), -1 for init.          *)
(***************************************************************************)
RootPids == 1..MaxRoots
DescPids == (MaxRoots + 1)..(MaxRoots + MaxDesc)
Pids == RootPids \cup DescPids

\* "normal" dies on SIGTERM and SIGKILL, "stubborn" ignores SIGTERM,
\* "denied" belongs to another user: signalling it raises psutil.AccessDenied.
Kinds == {"normal", "stubborn", "denied"}

UnbornProc == [st |-> "unborn", parent |-> -1, kind |-> "normal"]
GoneProc == [st |-> "gone", parent |-> -1, kind |-> "normal"]

\* psutil.pid_exists: a zombie still has an entry in the process table.
pid_exists(tbl, p) == tbl[p].st \in {"alive", "zombie"}

IsAlive(tbl, p) == tbl[p].st = "alive"

IsZombie(tbl, p) == tbl[p].st = "zombie"

\* A process ends: it stays a zombie while its parent lives and has not
\* waited for it; its living children are re-parented to init, and init
\* reaps the zombies it inherits.
Die(tbl, p) ==
    IF tbl[p].st # "alive" THEN tbl
    ELSE LET par == tbl[p].parent
             keeps == par = 0 \/ (par > 0 /\ tbl[par].st = "alive")
         IN [q \in Pids |->
              IF q = p
                THEN IF keeps
                       THEN [st |-> "zombie", parent |-> par, kind |-> "normal"]
                       ELSE GoneProc
              ELSE IF tbl[q].parent = p /\ tbl[q].st = "alive"
                THEN [tbl[q] EXCEPT !.parent = -1]
              ELSE IF tbl[q].parent = p /\ tbl[q].st = "zombie"
                THEN GoneProc
              ELSE tbl[q]]

\* waitpid() by the test process on one of its own children.
Reap(tbl, p) ==
    IF p \in Pids /\ tbl[p].st = "zombie" /\ tbl[p].parent = 0
      THEN [tbl EXCEPT ![p] = GoneProc]
      ELSE tbl

ChildrenOf(tbl, S) == {q \in Pids : pid_exists(tbl, q) /\ tbl[q].parent \in S}

RECURSIVE Closure(_, _)
Closure(tbl, S) ==
    LET N == S \cup ChildrenOf(tbl, S)
    IN IF N = S THEN S ELSE Closure(tbl, N)

RECURSIVE SortedSeq(_)
SortedSeq(S) ==
    IF S = {} THEN << >>
    ELSE LET m == CHOOSE x \in S : \A y \in S : x <= y
         IN <<m>> \o SortedSeq(S \ {m})

SeqToSet(s) == {s[i] : i \in 1..Len(s)}

\* list.remove(x): drops the first element equal to x.
RemoveFirst(s, x) ==
    IF x \notin SeqToSet(s) THEN s
    ELSE LET k == CHOOSE i \in 1..Len(s) : s[i] = x /\ \A j \in 1..(i - 1) : s[j] # x
         IN SubSeq(s, 1, k - 1) \o SubSeq(s, k + 1, Len(s))

\* Variant: the direct children only.
collect_child_processes_direct(tbl, pid) ==
    IF pid \in Pids /\ pid_exists(tbl, pid)
      THEN SortedSeq(ChildrenOf(tbl, {pid}))
      ELSE << >>

\* psutil.Process(pid).children(recursive=True); no such process: empty.
collect_child_processes(tbl, pid) ==
    IF pid \in Pids /\ pid_exists(tbl, pid)
      THEN SortedSeq(Closure(tbl, {pid}) \ {pid})
      ELSE << >>

(***************************************************************************)
(* Process tree termination (utils/processes.py).  An accumulator carries  *)
(* the process table, the mutable process_list, the processes that were    *)
(* sent a fatal signal but are still in the table (they end during the     *)
(* next wait), the pids signalled so far and the exception raised.         *)
(***************************************************************************)
Fatal(acc, p, linger) ==
    IF IsZombie(acc.tbl, p) THEN acc
    ELSE IF p \in linger THEN [acc EXCEPT !.pending = @ \cup {p}]
    ELSE [acc EXCEPT !.tbl = Die(@, p)]

Prune(acc, p) ==
    IF pid_exists(acc.tbl, p) THEN acc
    ELSE [acc EXCEPT !.list = RemoveFirst(@, p)]

\* One iteration of the loop of _terminate_process_list.
TerminateOne(acc, p, kill, slow_stop, linger) ==
    IF acc.raised # "none" THEN acc
    ELSE IF ~pid_exists(acc.tbl, p) THEN Prune(acc, p)
    ELSE IF ~kill /\ IsZombie(acc.tbl, p) THEN acc
    ELSE LET sent == [acc EXCEPT
                        !.sig = @ \cup {p},
                        !.count[p] = @ + 1,
                        !.signals = @ \cup
                          {[pid |-> p,
                            signal |-> IF kill THEN "SIGKILL" ELSE "SIGTERM"]}]
         IN IF acc.tbl[p].kind = "denied"
              THEN [sent EXCEPT !.raised = "AccessDenied"]
            ELSE IF kill
              THEN Prune(Fatal(sent, p, linger), p)
            ELSE IF slow_stop
              THEN IF acc.tbl[p].kind = "stubborn"
                     THEN sent
                     ELSE Prune([sent EXCEPT !.tbl = Reap(Die(@, p), p)], p)
            ELSE IF acc.tbl[p].kind = "stubborn"
              THEN sent
            ELSE Prune(Fatal(sent, p, linger), p)

RECURSIVE TerminateEach(_, _, _, _, _, _)
TerminateEach(acc, copy, i, kill, slow_stop, linger) ==
    IF i > Len(copy) THEN acc
    ELSE TerminateEach(TerminateOne(acc, copy[i], kill, slow_stop, linger),
                       copy, i + 1, kill, slow_stop, linger)

_terminate_process_list(acc, kill, slow_stop, linger) ==
    TerminateEach(acc, acc.list, 1, kill, slow_stop, linger)

RECURSIVE DieAll(_, _)
DieAll(tbl, S) ==
    IF S = {} THEN tbl
    ELSE LET p == CHOOSE x \in S : \A y \in S : x <= y
         IN DieAll(Die(tbl, p), S \ {p})

RECURSIVE ReapAll(_, _)
ReapAll(tbl, S) ==
    IF S = {} THEN tbl
    ELSE LET p == CHOOSE x \in S : \A y \in S : x <= y
         IN ReapAll(Reap(tbl, p), S \ {p})

\* psutil.wait_procs(process_list, timeout=5): the signalled processes end,
\* own children are reaped; the list itself is left as it is.
wait_procs(acc) ==
    IF acc.raised # "none" THEN acc
    ELSE [acc EXCEPT !.tbl = ReapAll(DieAll(@, acc.pending), SeqToSet(acc.list)),
                     !.pending = {}]

\* How often each process was signalled in the step under way.
NoCount == [q \in Pids |-> 0]

\* Variant: the list goes on as it was given.
Dedup_kept(list, copy, i, seen) == list

\* The duplicate removal at the head of terminate_process_list.
RECURSIVE Dedup(_, _, _, _)
Dedup(list, copy, i, seen) ==
    IF i > Len(copy) THEN list
    ELSE Dedup(IF copy[i] \in seen THEN RemoveFirst(list, copy[i]) ELSE list,
               copy, i + 1, seen \cup {copy[i]})

\* The record of one step of terminate_process_list: its arguments when it
\* begins and, when its wait is over, the signals it has sent and the
\* processes of its list that are still alive.
RoundBegin(acc, n, kill, slow_stop) ==
    [acc EXCEPT !.rounds = Append(@, [n |-> n, kill |-> kill,
                                      slow_stop |-> slow_stop]),
                !.signals = {},
                !.count = NoCount]

RoundEnd(before, waited) ==
    [waited EXCEPT
       !.sent = Append(@, waited.signals),
       !.counts = Append(@, waited.count),
       !.alive_after =
         Append(@, {q \in SeqToSet(before.list) : IsAlive(waited.tbl, q)})]

\* One step of terminate_process_list: _terminate_process_list, then
\* psutil.wait_procs.
Round(acc, n, kill, slow_stop, linger) ==
    CHOOSE r \in UNION {
        {RoundEnd(a, w) :
           w \in {wait_procs(_terminate_process_list(
                     RoundBegin(a, n, kill, slow_stop), kill, slow_stop,
                     linger))}} : a \in {acc}} : TRUE

\* Variant: the second step always kills.
Round2Kill_always(slow_stop) == TRUE

\* "kill=slow_stop is False" of the second step.
Round2Kill(slow_stop) == slow_stop = FALSE

\* Variant: the third step keeps the caller's slow_stop.
Round3SlowStop_asGiven(slow_stop) == slow_stop

\* "kill=True, slow_stop=False" of the third step.
Round3SlowStop(slow_stop) == FALSE

terminate_process_list(tbl, process_list, kill, slow_stop, linger) ==
    LET a0 == [tbl |-> tbl,
               list |-> Dedup(process_list, process_list, 1, {}),
               deduped |-> Dedup(process_list, process_list, 1, {}),
               pending |-> {}, sig |-> {}, raised |-> "none",
               rounds |-> << >>, warned |-> FALSE, signals |-> {},
               count |-> NoCount, counts |-> << >>,
               sent |-> << >>, alive_after |-> << >>]
        a1 == Round(a0, 1, kill, slow_stop, linger)
        a2 == IF a1.raised = "none" /\ a1.list # << >>
                THEN Round(a1, 2, Round2Kill(slow_stop), slow_stop, linger)
                ELSE a1
        a3 == IF a2.raised = "none" /\ a2.list # << >>
                THEN Round(a2, 3, TRUE, Round3SlowStop(slow_stop), linger)
                ELSE a2
    IN IF a3.raised = "none"
         THEN [a3 EXCEPT !.warned = (a3.list # << >>)]
         \* An exception leaves the loop; what was signalled still ends.
         ELSE [a3 EXCEPT !.tbl = DieAll(@, a3.pending), !.pending = {}]

\* terminate_process(pid=..., process=..., children=..., kill_children=...,
\* slow_stop=...); 0 stands for a pid or a process that is not given.
\* "if pid and not process:" resolves the pid and appends the process to the
\* list; a process that is given is used for the children only.
\* The children argument is extended in place when it is a non-empty list.
terminate_process(tbl, pid, given, children, kill_children, slow_stop, linger) ==
    LET kc == IF kill_children = "None"
                THEN (IF slow_stop = FALSE THEN "True" ELSE "None")
                ELSE kill_children
        resolves == pid # 0 /\ given = 0
        process == IF resolves
                     THEN (IF pid_exists(tbl, pid) THEN pid ELSE 0)
                     ELSE given
        list0 == IF resolves /\ process # 0 THEN <<process>> ELSE << >>
        kids == IF kc = "True" /\ process # 0
                  THEN children \o collect_child_processes(tbl, process)
                  ELSE children
        list1 == IF kc = "True" THEN list0 \o kids ELSE list0
        none == [tbl |-> tbl, list |-> << >>, pending |-> {}, sig |-> {},
                 raised |-> "none", rounds |-> << >>, warned |-> FALSE,
                 signals |-> {}, sent |-> << >>, alive_after |-> << >>,
                 deduped |-> << >>, count |-> NoCount, counts |-> << >>]
        res == IF list1 # << >>
                 THEN terminate_process_list(tbl, list1, slow_stop = FALSE,
                                             slow_stop, linger)
                 ELSE none
    IN [res |-> res, children |-> IF children # << >> THEN kids ELSE children,
        handed |-> list1]

(***************************************************************************)
(* The program state.                                                      *)
(***************************************************************************)
VARIABLES
    \* Factory configuration, fixed at construction.
    kind, slow_stop, timeout, max_start_attempts,
    extra_cli_arguments_after_first_start_failure,
    \* SubprocessImpl: _terminal, _terminal_stdout, _terminal_stderr,
    \* _terminal_result, _terminal_timeout, _children and the atexit hooks.
    terminal, terminal_stdout, terminal_stderr, terminal_result,
    terminal_timeout, children, atexit,
    \* DaemonImpl: _start_args_and_kwargs; how often each callback has run.
    start_args, cb_count,
    \* The operating system.
    procs, next_root,
    \* The caller's thread: position, return stack, values handed back.
    pc, stack, rv, checks_rv, timmed_out, engine_exc, cb_i,
    \* Locals of DaemonImpl.start and Daemon.run_start_checks.
    process_running, start_attempts, current_attempt, run_arguments, clock,
    queue,
    \* History: what the calls did, kept for the properties below.
    ncalls, op, call_args, ret, last, tlog, attempts_log, spawned_by_call,
    \* The _timeout argument of the run() call, None for the other calls.
    _timeout,
    terminated, real_terms, sigs, tree_at_terminate, check_last,
    check_true_before,
    \* Daemon: _start_checks_callbacks, the permanent list of start checks.
    start_checks_callbacks,
    \* A direct call of terminate_process_list: its arguments and outcome.
    tpl,
    \* Daemon.check_ports, the ports something listens on, and the frame of
    \* one call of Daemon._check_listening_ports.
    check_ports, listening, port_check,
    \* The listening sockets psutil reports: which process is bound to which
    \* port.
    connections,
    \* get_unused_localhost_port.__cached_ports__, and the ports the function
    \* has returned so far.
    cached_ports, got_ports,
    \* A ProcessResult the test code has constructed from an output.
    process_result,
    \* A Callback of the test code with its last invocation, and the threads
    \* of the test code that are inside get_unused_localhost_port.
    callback, threads,
    \* The frame of a context manager of the daemon (started(), stopped(),
    \* "with daemon:") and the record of what it did.
    ctx

cfgVars == <<kind, slow_stop, timeout, max_start_attempts,
            extra_cli_arguments_after_first_start_failure>>
\* The state of the operations that are exercised on their own.
sideVars == <<tpl, check_ports, listening, connections, port_check, ctx,
             cached_ports, got_ports, process_result, callback, threads>>
engVars == <<terminal, terminal_stdout, terminal_stderr, terminal_result,
             terminal_timeout, children, atexit>>
osVars == <<procs, next_root>>
startLocals == <<process_running, start_attempts, current_attempt,
                 run_arguments, clock, queue>>
checkHist == <<check_last, check_true_before>>
termHist == <<terminated, real_terms, sigs, tree_at_terminate>>

vars == <<kind, slow_stop, timeout, max_start_attempts,
          extra_cli_arguments_after_first_start_failure,
          terminal, terminal_stdout, terminal_stderr, terminal_result,
          terminal_timeout, children, atexit, start_args, cb_count,
          procs, next_root, pc, stack, rv, checks_rv, timmed_out, engine_exc,
          cb_i, process_running, start_attempts, current_attempt,
          run_arguments, clock, queue, ncalls, op, call_args, _timeout, ret, last, tlog,
          attempts_log, spawned_by_call, terminated, real_terms, sigs,
          tree_at_terminate, check_last, check_true_before,
          start_checks_callbacks, tpl, check_ports, listening, port_check,
          connections, ctx, cached_ports, got_ports, process_result, callback, threads>>

\* None for a handle, a ProcessResult, the start arguments, a number.
NoTerminal == [pid |-> 0, args |-> << >>]
NoResult == [pid |-> 0, cmdline |-> << >>]
NoStartArgs == [set |-> FALSE, args |-> << >>, max_start_attempts |-> -1,
                start_timeout |-> -1]
NoneInt == -1

\* Python's "a or b" on an optional number: None and 0 are both falsy.
Or(a, b) == IF a = NoneInt \/ a = 0 THEN b ELSE a

\* The callback lists of a Daemon after construction and hook registration:
\* __attrs_post_init__ registers the built-in ones first.
BeforeStartCallbacks == <<"bs1">>
AfterStartCallbacks == <<"_add_factory_to_stats_processes", "as1">>
BeforeTerminateCallbacks == <<"bt1", "bt2">>
AfterTerminateCallbacks == <<"_terminate_processes_matching_listen_ports",
                             "_remove_factory_from_stats_processes", "at1">>
StartCheckCallbacks == <<"_check_listening_ports", "sc1">>
BuiltinCallbacks == {"_add_factory_to_stats_processes",
                     "_terminate_processes_matching_listen_ports",
                     "_remove_factory_from_stats_processes"}
AllCallbacks == SeqToSet(BeforeStartCallbacks) \cup SeqToSet(AfterStartCallbacks)
                \cup SeqToSet(BeforeTerminateCallbacks)
                \cup SeqToSet(AfterTerminateCallbacks)

\* What calling a callback does here: it returns, or it raises
\* CallbackException.  The built-in ones return.
CallbackOutcomes(cb) ==
    IF cb \in BuiltinCallbacks THEN {"ok"}
    ELSE {"ok", "CallbackException"}

\* What a readiness check can do: return True, return anything else, raise
\* FactoryNotStarted, or raise another exception.
CheckOutcomes == {"True", "False", "FactoryNotStarted", "Exception"}

ArgChoices == {<< >>, <<"-x">>}
TimeoutChoices == {NoneInt, 0, 1}

\* Factory.cmdline / ScriptSubprocess.cmdline: the argv of the spawn.
cmdline(args) == <<"script">> \o args

\* SubprocessImpl.is_running: a handle exists and poll() finds no exit status.
is_running == terminal.pid # 0 /\ IsAlive(procs, terminal.pid)

\* The side effect of poll(): an exited child is reaped.
Polled(tbl) == IF terminal.pid # 0 THEN Reap(tbl, terminal.pid) ELSE tbl

\* SubprocessImpl.pid
pid == IF terminal.pid = 0 THEN 0 ELSE terminal.pid

NoRet == [op |-> "none", kind |-> "none", val |-> "none", result |-> NoResult,
          attempts |-> 0]

\* No Callback made, nothing invoked.
NoInvocation == [given_args |-> << >>, given_kwargs |-> << >>,
                 func_args |-> << >>, func_kwargs |-> << >>,
                 raised |-> "none"]
NoCallback == [args |-> [set |-> FALSE, v |-> << >>],
               kwargs |-> [set |-> FALSE, v |-> << >>],
               calls |-> 0, last |-> NoInvocation]

\* No thread is inside get_unused_localhost_port.
PortThreads == {1, 2}
NoThreads == [t \in PortThreads |-> [pc |-> "out", port |-> 0, ret |-> 0,
                                      seen |-> {}]]

\* No ProcessResult constructed.
NoProcessResult == [built |-> FALSE, stdout |-> "", stderr |-> "",
                    cmdline |-> [set |-> FALSE, v |-> << >>],
                    data_key |-> "None",
                    data |-> [t |-> "None", text |-> "None", has |-> {}],
                    raised |-> "none", str |-> << >>]

\* No call of terminate_process_list, no call of _check_listening_ports.
NoListOut == [list |-> << >>, raised |-> "none", rounds |-> << >>,
              warned |-> FALSE, sent |-> << >>, alive_after |-> << >>,
              deduped |-> << >>, counts |-> << >>]
NoCall == [via |-> "list", target |-> 0, children |-> << >>,
           kill_children |-> "None", existed |-> FALSE, tree |-> {}]
NoTpl == [phase |-> "none", list |-> << >>, kill |-> FALSE,
          slow_stop |-> FALSE, out |-> NoListOut, call |-> NoCall]
NoPortCheck == [remaining |-> {}, confirmed |-> {}, rv |-> "none"]

\* No context manager of the daemon in use.  A context-manager frame holds
\* the flow it belongs to, where it stands, the arguments it passes to
\* start(), the optional callbacks it was given and the exception it has to
\* re-raise; the rest records what it did.
NoCtxResult == [kind |-> "none", val |-> "none"]
NoLaunch == [pid |-> 0, cmdline |-> << >>, attempts |-> 0]
NoCtx == [flow |-> "none", phase |-> "none", n |-> 0, cbs |-> {},
          args |-> << >>, msa |-> NoneInt, exc |-> "none", log |-> << >>,
          was_running |-> FALSE, body |-> "none", body_running |-> FALSE,
          launch |-> NoLaunch, result |-> NoCtxResult]

InitConfig ==
    \* A plain Subprocess has a run timeout, a Daemon has start attempts.
    /\ kind \in {"Subprocess", "Daemon"}
    /\ slow_stop \in BOOLEAN
    /\ timeout \in IF kind = "Subprocess" THEN {NoneInt, 1} ELSE {NoneInt}
    /\ max_start_attempts \in IF kind = "Daemon" THEN 1..MaxAttempts ELSE {1}
    /\ extra_cli_arguments_after_first_start_failure = << >>

\* The engine and the supervisor right after construction, the caller idle.
InitIdle ==
    /\ terminal_stdout = "None"
    /\ terminal_stderr = "None"
    /\ terminal_result = NoResult
    /\ terminal_timeout = NoneInt
    /\ children = << >>
    /\ atexit = 0
    /\ start_args = NoStartArgs
    /\ cb_count = [c \in AllCallbacks |-> 0]
    /\ start_checks_callbacks = StartCheckCallbacks
    /\ pc = "idle"
    /\ stack = << >>
    /\ rv = NoResult
    /\ checks_rv = "none"
    /\ timmed_out = FALSE
    /\ engine_exc = "none"
    /\ cb_i = 1
    /\ process_running = FALSE
    /\ start_attempts = 0
    /\ current_attempt = 0
    /\ run_arguments = << >>
    /\ clock = 0
    /\ queue = << >>
    /\ ncalls = 0
    /\ op = "none"
    /\ call_args = << >>
    /\ _timeout = NoneInt
    /\ ret = NoRet
    /\ last = "init"
    /\ tlog = << >>
    /\ attempts_log = << >>
    /\ spawned_by_call = {}
    /\ terminated = {}
    /\ real_terms = 0
    /\ sigs = {}
    /\ tree_at_terminate = {}
    /\ check_last = [id |-> "none", outcome |-> "none"]
    /\ check_true_before = {}

\* Nothing was spawned yet.
InitNoProcess ==
    /\ terminal = NoTerminal
    /\ procs = [p \in Pids |-> UnbornProc]
    /\ next_root = 1

InitNoSide ==
    /\ tpl = NoTpl
    /\ check_ports = {}
    /\ listening = {}
    /\ connections = {}
    /\ cached_ports = {}
    /\ got_ports = << >>
    /\ process_result = NoProcessResult
    /\ callback = NoCallback
    /\ threads = NoThreads
    /\ port_check = NoPortCheck
    /\ ctx = NoCtx

Init ==
    /\ InitConfig
    /\ InitIdle
    /\ InitNoProcess
    /\ InitNoSide

(***************************************************************************)
(* Returning to the caller and raising.  No frame of this model catches    *)
(* what terminate(), run() or start() raise, so a raise ends the call.     *)
(***************************************************************************)
ReturnTo(v) ==
    /\ rv' = v
    /\ IF stack = << >>
         THEN /\ pc' = "idle"
              /\ ret' = [op |-> op, kind |-> "return", val |-> "result",
                         result |-> v, attempts |-> 0]
         ELSE /\ pc' = Head(stack)
              /\ ret' = ret
    /\ stack' = IF stack = << >> THEN stack ELSE Tail(stack)

Raise(e, result, n) ==
    /\ pc' = "idle"
    /\ stack' = << >>
    /\ ret' = [op |-> op, kind |-> "raise", val |-> e, result |-> result,
               attempts |-> n]


(***************************************************************************)
(* SubprocessImpl.init_terminal, in two steps: the spawn (Popen), then the *)
(* 50 ms wait with the first snapshot of the children.  The spawned        *)
(* process runs between the two.                                           *)
(***************************************************************************)
RootKinds == {"normal", "stubborn"}

\* Appends the children not yet in the list (the "not in" test of the code).
RECURSIVE AppendNew(_, _)
AppendNew(list, new) ==
    IF new = << >> THEN list
    ELSE AppendNew(IF Head(new) \in SeqToSet(list) THEN list
                   ELSE Append(list, Head(new)), Tail(new))

\* Variant: the spawn keeps the cached result of the previous process.
ResultAfterSpawn_stale == terminal_result

\* "self._terminal_result = None" right after the spawn.
ResultAfterSpawn == NoResult

Popen ==
    /\ pc = "popen"
    /\ next_root <= MaxRoots
    /\ \E k \in RootKinds :
         procs' = [procs EXCEPT ![next_root] =
                     [st |-> "alive", parent |-> 0, kind |-> k]]
    /\ next_root' = next_root + 1
    /\ terminal_stdout' = "open"
    /\ terminal_stderr' = "open"
    /\ terminal' = [pid |-> next_root, args |-> cmdline(run_arguments)]
    /\ terminal_result' = ResultAfterSpawn
    /\ spawned_by_call' = spawned_by_call \cup {next_root}
    /\ pc' = "init_wait"
    /\ last' = "init_terminal:popen"
    /\ UNCHANGED <<cfgVars, sideVars, start_checks_callbacks, terminal_timeout, children, atexit, start_args,
                   cb_count, stack, rv, checks_rv, timmed_out, engine_exc, cb_i,
                   startLocals, ncalls, op, call_args, _timeout, ret, tlog, attempts_log,
                   termHist, checkHist>>

InitWait ==
    /\ pc = "init_wait"
    /\ IF IsAlive(procs, terminal.pid)
         THEN /\ children' = AppendNew(children,
                                       collect_child_processes(procs, terminal.pid))
              /\ atexit' = atexit + 1
              /\ procs' = procs
         ELSE /\ procs' = Reap(procs, terminal.pid)
              /\ UNCHANGED <<children, atexit>>
    /\ pc' = Head(stack)
    /\ stack' = Tail(stack)
    /\ last' = "init_terminal:return"
    /\ UNCHANGED <<cfgVars, sideVars, start_checks_callbacks, terminal, terminal_stdout, terminal_stderr,
                   terminal_result, terminal_timeout, start_args, cb_count,
                   next_root, rv, checks_rv, timmed_out, engine_exc, cb_i,
                   startLocals, ncalls, op, call_args, _timeout, ret, tlog, attempts_log,
                   spawned_by_call, termHist, checkHist>>

(***************************************************************************)
(* SubprocessImpl._terminate, in two steps: the snapshot of the children   *)
(* and the signal to the root with its bounded wait, then the process tree *)
(* termination, the final wait and the reset of the handles.               *)
(***************************************************************************)
\* Where the engine's terminate hands its outcome: to the after-terminate
\* callbacks of a Daemon, to the caller of a plain factory.
EngineReturn(v) ==
    IF kind = "Daemon"
      THEN /\ rv' = v
           /\ engine_exc' = "none"
           /\ pc' = "term_after"
           /\ cb_i' = 1
           /\ UNCHANGED <<stack, ret>>
      ELSE /\ ReturnTo(v)
           /\ UNCHANGED <<engine_exc, cb_i>>

\* Variant: an exception of the engine leaves terminate() at once.
EngineRaise_noFinally(e) ==
    /\ Raise(e, NoResult, 0)
    /\ UNCHANGED <<engine_exc, cb_i, rv>>

EngineRaise(e) ==
    IF kind = "Daemon"
      THEN /\ engine_exc' = e
           /\ pc' = "term_after"
           /\ cb_i' = 1
           /\ UNCHANGED <<stack, ret, rv>>
      ELSE /\ Raise(e, NoResult, 0)
           /\ UNCHANGED <<engine_exc, cb_i, rv>>

\* Popen.terminate() / Popen.kill() on the root, then wait(10).
SignalRoot(tbl, p, slow) ==
    IF ~IsAlive(tbl, p) THEN Reap(tbl, p)
    ELSE IF slow /\ tbl[p].kind = "stubborn" THEN tbl
    ELSE Reap(Die(tbl, p), p)

\* Variant: the handle outlives the reset.
ResetExecutionState_keepsHandle ==
    /\ terminal' = terminal
    /\ terminal_stdout' = "None"
    /\ terminal_stderr' = "None"
    /\ children' = << >>

\* Variant: the tracked children outlive the reset.
ResetExecutionState_keepsChildren ==
    /\ terminal' = NoTerminal
    /\ terminal_stdout' = "None"
    /\ terminal_stderr' = "None"
    /\ children' = children

\* The finally block of _terminate: the execution state is reset.
ResetExecutionState ==
    /\ terminal' = NoTerminal
    /\ terminal_stdout' = "None"
    /\ terminal_stderr' = "None"
    /\ children' = << >>

EngineTerminateCached ==
    /\ pc = "engine_terminate"
    /\ terminal = NoTerminal
    /\ EngineReturn(terminal_result)
    /\ sigs' = {}
    /\ tlog' = IF kind = "Daemon" THEN Append(tlog, "engine") ELSE tlog
    /\ last' = "_terminate:cached"
    /\ UNCHANGED <<cfgVars, sideVars, start_checks_callbacks, engVars, start_args, cb_count, osVars, checks_rv,
                   timmed_out, startLocals, ncalls, op, call_args, _timeout,
                   attempts_log, spawned_by_call, terminated, real_terms,
                   tree_at_terminate, checkHist>>

\* Variant: one registration is removed.
atexit_unregister_one(hooks) == IF hooks > 0 THEN hooks - 1 ELSE 0

\* atexit.unregister(self.terminate) removes every registration of the
\* method, however often it was registered.
atexit_unregister(hooks) == 0 * hooks

EngineTerminateSignal ==
    /\ pc = "engine_terminate"
    /\ terminal # NoTerminal
    /\ atexit' = atexit_unregister(atexit)
    /\ children' = AppendNew(children,
                             collect_child_processes(procs, terminal.pid))
    /\ tree_at_terminate' =
         IF pid_exists(procs, terminal.pid)
           THEN {[pid |-> p, parent |-> procs[p].parent] :
                   p \in Closure(procs, {terminal.pid})}
           ELSE {}
    /\ procs' = SignalRoot(procs, terminal.pid, slow_stop)
    /\ sigs' = IF IsAlive(procs, terminal.pid) THEN {terminal.pid} ELSE {}
    /\ real_terms' = real_terms + 1
    /\ pc' = "engine_terminate2"
    /\ last' = "_terminate:signal"
    /\ UNCHANGED <<cfgVars, sideVars, start_checks_callbacks, terminal, terminal_stdout, terminal_stderr,
                   terminal_result, terminal_timeout, start_args, cb_count,
                   next_root, stack, rv, checks_rv, timmed_out, engine_exc,
                   cb_i, startLocals, ncalls, op, call_args, _timeout, ret, tlog,
                   attempts_log, spawned_by_call, terminated, checkHist>>

EngineTerminateTree ==
    /\ pc = "engine_terminate2"
    /\ \E linger \in SUBSET (SeqToSet(children) \cup {terminal.pid}) :
         LET tp == terminate_process(procs, terminal.pid, 0, children, "True",
                                     slow_stop, linger)
             result == [pid |-> terminal.pid, cmdline |-> terminal.args]
         IN \* Leaving the "with self._terminal" block waits for the root.
            /\ ~IsAlive(tp.res.tbl, terminal.pid)
            /\ procs' = Reap(tp.res.tbl, terminal.pid)
            /\ sigs' = sigs \cup tp.res.sig
            /\ tlog' = IF kind = "Daemon" THEN Append(tlog, "engine") ELSE tlog
            /\ IF tp.res.raised = "none"
                 THEN /\ terminal_result' = result
                      /\ ResetExecutionState
                      /\ terminated' = terminated \cup {terminal.pid}
                      /\ EngineReturn(result)
                      /\ last' = "_terminate:return"
                 ELSE /\ children' = tp.children
                      /\ EngineRaise(tp.res.raised)
                      /\ last' = "_terminate:raise"
                      /\ UNCHANGED <<terminal, terminal_stdout, terminal_stderr,
                                     terminal_result, terminated>>
    /\ UNCHANGED <<cfgVars, sideVars, start_checks_callbacks, terminal_timeout, atexit, start_args, cb_count,
                   next_root, checks_rv, timmed_out, startLocals, ncalls, op,
                   call_args, _timeout, attempts_log, spawned_by_call, real_terms,
                   tree_at_terminate, checkHist>>

(***************************************************************************)
(* Factory.terminate -> impl.terminate.  For a Daemon this is              *)
(* DaemonImpl.terminate: the cached result, the before-terminate           *)
(* callbacks, the engine's terminate and, in a finally block, the          *)
(* after-terminate callbacks.                                              *)
(***************************************************************************)
TerminateEntry ==
    /\ pc = "terminate"
    /\ IF kind = "Daemon"
         THEN IF terminal_result # NoResult
                THEN /\ ReturnTo(terminal_result)
                     /\ last' = "terminate:cached"
                     /\ UNCHANGED <<tlog, cb_i>>
                ELSE /\ pc' = "term_before"
                     /\ cb_i' = 1
                     /\ tlog' = << >>
                     /\ last' = "terminate:enter"
                     /\ UNCHANGED <<stack, rv, ret>>
         ELSE /\ pc' = "engine_terminate"
              /\ last' = "terminate:enter"
              /\ UNCHANGED <<stack, rv, ret, tlog, cb_i>>
    /\ UNCHANGED <<cfgVars, sideVars, start_checks_callbacks, engVars, start_args, cb_count, osVars, checks_rv,
                   timmed_out, engine_exc, startLocals, ncalls, op, call_args, _timeout,
                   attempts_log, spawned_by_call, termHist, checkHist>>

\* One pass of "for callback in callbacks: try: callback() except
\* CallbackException: log".
RunCallback_aborts(cbs, done_pc, name) ==
    IF cb_i > Len(cbs)
      THEN /\ pc' = done_pc
           /\ cb_i' = 1
           /\ last' = name \o ":done"
           /\ UNCHANGED <<cb_count, tlog, stack, ret>>
      ELSE \E o \in CallbackOutcomes(cbs[cb_i]) :
             /\ cb_count' = [cb_count EXCEPT ![cbs[cb_i]] = @ + 1]
             /\ tlog' = IF pc \in {"term_before", "term_after"}
                          THEN Append(tlog, cbs[cb_i]) ELSE tlog
             /\ cb_i' = IF o = "ok" THEN cb_i + 1 ELSE Len(cbs) + 1
             /\ last' = name \o (IF o = "ok" THEN ":callback" ELSE ":caught")
             /\ UNCHANGED <<pc, stack, ret>>

RunCallback(cbs, done_pc, name) ==
    IF cb_i > Len(cbs)
      THEN /\ pc' = done_pc
           /\ cb_i' = 1
           /\ last' = name \o ":done"
           /\ UNCHANGED <<cb_count, tlog, stack, ret>>
      ELSE \E o \in CallbackOutcomes(cbs[cb_i]) :
             /\ cb_count' = [cb_count EXCEPT ![cbs[cb_i]] = @ + 1]
             /\ tlog' = IF pc \in {"term_before", "term_after"}
                          THEN Append(tlog, cbs[cb_i]) ELSE tlog
             /\ cb_i' = cb_i + 1
             /\ last' = name \o (IF o = "ok" THEN ":callback" ELSE ":caught")
             /\ UNCHANGED <<pc, stack, ret>>

TerminateBefore ==
    /\ pc = "term_before"
    /\ RunCallback(BeforeTerminateCallbacks, "engine_terminate", "before_terminate")
    /\ UNCHANGED <<cfgVars, sideVars, start_checks_callbacks, engVars, start_args, osVars, rv, checks_rv,
                   timmed_out, engine_exc, startLocals, ncalls, op, call_args, _timeout,
                   attempts_log, spawned_by_call, termHist, checkHist>>

TerminateAfter ==
    /\ pc = "term_after"
    /\ IF cb_i > Len(AfterTerminateCallbacks)
         THEN /\ IF engine_exc = "none"
                   THEN /\ ReturnTo(rv)
                        /\ last' = "terminate:return"
                   ELSE /\ Raise(engine_exc, NoResult, 0)
                        /\ rv' = rv
                        /\ last' = "terminate:raise"
              /\ cb_i' = 1
              /\ engine_exc' = "none"
              /\ UNCHANGED <<cb_count, tlog>>
         ELSE /\ RunCallback(AfterTerminateCallbacks, "term_after", "after_terminate")
              /\ UNCHANGED <<engine_exc, rv>>
    /\ UNCHANGED <<cfgVars, sideVars, start_checks_callbacks, engVars, start_args, osVars, checks_rv, timmed_out,
                   startLocals, ncalls, op, call_args, _timeout, attempts_log,
                   spawned_by_call, termHist, checkHist>>

\* The test code calls factory.terminate().
CallTerminate ==
    /\ pc = "idle"
    /\ ncalls < MaxCalls
    /\ ncalls' = ncalls + 1
    /\ op' = "terminate"
    /\ call_args' = << >>
    /\ _timeout' = NoneInt
    /\ ret' = NoRet
    /\ pc' = "terminate"
    /\ stack' = << >>
    /\ spawned_by_call' = {}
    /\ last' = "call:terminate"
    /\ UNCHANGED <<cfgVars, sideVars, start_checks_callbacks, engVars, start_args, cb_count, osVars, rv,
                   checks_rv, timmed_out, engine_exc, cb_i, startLocals, tlog,
                   attempts_log, termHist, checkHist>>

(***************************************************************************)
(* Subprocess.run: spawn, wait for the exit or the timeout, terminate,     *)
(* then raise FactoryTimeout or return the result.                         *)
(***************************************************************************)
CallRun(args, t) ==
    /\ pc = "idle"
    /\ kind = "Subprocess"
    /\ ncalls < MaxCalls
    /\ next_root <= MaxRoots
    /\ ncalls' = ncalls + 1
    /\ op' = "run"
    /\ call_args' = args
    /\ _timeout' = t
    /\ ret' = NoRet
    /\ terminal_timeout' = Or(t, timeout)
    /\ timmed_out' = FALSE
    /\ run_arguments' = args
    /\ pc' = "popen"
    /\ stack' = <<"run_communicate">>
    /\ spawned_by_call' = {}
    /\ last' = "call:run"
    /\ UNCHANGED <<cfgVars, sideVars, start_checks_callbacks, terminal, terminal_stdout, terminal_stderr,
                   terminal_result, children, atexit, start_args, cb_count,
                   osVars, rv, checks_rv, engine_exc, cb_i, process_running,
                   start_attempts, current_attempt, clock, queue, tlog,
                   attempts_log, termHist, checkHist>>

\* Variant: a timeout goes straight to the raise, without terminate().
RunCommunicate_noTerminate ==
    /\ pc = "run_communicate"
    /\ \/ /\ ~IsAlive(procs, terminal.pid)
          /\ timmed_out' = FALSE
          /\ procs' = Reap(procs, terminal.pid)
          /\ pc' = "terminate"
          /\ stack' = <<"run_result">>
       \/ /\ IsAlive(procs, terminal.pid)
          /\ terminal_timeout # NoneInt
          /\ timmed_out' = TRUE
          /\ procs' = procs
          /\ pc' = "run_result"
          /\ stack' = << >>
    /\ last' = "run:communicate"
    /\ UNCHANGED <<cfgVars, sideVars, start_checks_callbacks, engVars, start_args, cb_count, next_root, rv,
                   checks_rv, engine_exc, cb_i, startLocals, ncalls, op,
                   call_args, _timeout, ret, tlog, attempts_log, spawned_by_call,
                   termHist, checkHist>>

\* communicate(timeout=...): returns when the process has exited, raises
\* TimeoutExpired when the timeout elapses first; with no timeout it blocks.
RunCommunicate ==
    /\ pc = "run_communicate"
    /\ \/ /\ ~IsAlive(procs, terminal.pid)
          /\ timmed_out' = FALSE
          /\ procs' = Reap(procs, terminal.pid)
       \/ /\ IsAlive(procs, terminal.pid)
          /\ terminal_timeout # NoneInt
          /\ timmed_out' = TRUE
          /\ procs' = procs
    /\ pc' = "terminate"
    /\ stack' = <<"run_result">>
    /\ last' = "run:communicate"
    /\ UNCHANGED <<cfgVars, sideVars, start_checks_callbacks, engVars, start_args, cb_count, next_root, rv,
                   checks_rv, engine_exc, cb_i, startLocals, ncalls, op,
                   call_args, _timeout, ret, tlog, attempts_log, spawned_by_call,
                   termHist, checkHist>>

RunResult ==
    /\ pc = "run_result"
    /\ pc' = "idle"
    /\ stack' = << >>
    /\ IF timmed_out
         THEN /\ ret' = [op |-> op, kind |-> "raise", val |-> "FactoryTimeout",
                         result |-> rv, attempts |-> 0]
              /\ last' = "run:FactoryTimeout"
         ELSE /\ ret' = [op |-> op, kind |-> "return", val |-> "result",
                         result |-> rv, attempts |-> 0]
              /\ last' = "run:return"
    /\ UNCHANGED <<cfgVars, sideVars, start_checks_callbacks, engVars, start_args, cb_count, osVars, rv,
                   checks_rv, timmed_out, engine_exc, cb_i, startLocals, ncalls,
                   op, call_args, _timeout, tlog, attempts_log, spawned_by_call, termHist,
                   checkHist>>

(***************************************************************************)
(* The environment: a spawned process exits on its own or forks a child.   *)
(***************************************************************************)
EnvExit(p) ==
    /\ IsAlive(procs, p)
    /\ procs' = Die(procs, p)
    /\ UNCHANGED <<cfgVars, sideVars, start_checks_callbacks, engVars, start_args, cb_count, next_root, pc, stack,
                   rv, checks_rv, timmed_out, engine_exc, cb_i, startLocals,
                   ncalls, op, call_args, _timeout, ret, last, tlog, attempts_log,
                   spawned_by_call, termHist, checkHist>>

EnvFork(p, k) ==
    /\ IsAlive(procs, p)
    /\ \E q \in DescPids :
         /\ procs[q].st = "unborn"
         /\ \A r \in DescPids : r < q => procs[r].st # "unborn"
         /\ procs' = [procs EXCEPT ![q] = [st |-> "alive", parent |-> p,
                                           kind |-> k]]
    /\ UNCHANGED <<cfgVars, sideVars, start_checks_callbacks, engVars, start_args, cb_count, next_root, pc, stack,
                   rv, checks_rv, timmed_out, engine_exc, cb_i, startLocals,
                   ncalls, op, call_args, _timeout, ret, last, tlog, attempts_log,
                   spawned_by_call, termHist, checkHist>>

(***************************************************************************)
(* DaemonImpl.start and Daemon.run_start_checks.                           *)
(***************************************************************************)
\* Whether the clock has passed the attempt's deadline
\* (time.time() <= start_running_timeout fails).
\* Variant: the deadline of an attempt never passes.
DeadlinePassed_never == FALSE

DeadlinePassed == clock > StartTimeout

\* Variant: the start arguments are recorded before the running test.
StartNoOp_recordsArgs(args, msa) ==
    /\ ret' = [op |-> "start", kind |-> "return", val |-> "True",
               result |-> NoResult, attempts |-> 0]
    /\ last' = "start:already_running"
    /\ start_args' = [set |-> TRUE, args |-> args, max_start_attempts |-> msa,
                      start_timeout |-> NoneInt]
    /\ UNCHANGED <<pc, process_running, start_attempts, current_attempt,
                   run_arguments, attempts_log>>

\* "if self.is_running(): log.warning(...); return True"
StartNoOp(args, msa) ==
    /\ ret' = [op |-> "start", kind |-> "return", val |-> "True",
               result |-> NoResult, attempts |-> 0]
    /\ last' = "start:already_running"
    /\ UNCHANGED <<pc, start_args, process_running, start_attempts,
                   current_attempt, run_arguments, attempts_log>>

CallStart(args, msa) ==
    /\ pc = "idle"
    /\ kind = "Daemon"
    /\ ncalls < MaxCalls
    /\ next_root + Or(msa, max_start_attempts) - 1 <= MaxRoots
    /\ ncalls' = ncalls + 1
    /\ op' = "start"
    /\ call_args' = args
    /\ _timeout' = NoneInt
    /\ spawned_by_call' = {}
    /\ procs' = Polled(procs)
    /\ IF is_running
         THEN StartNoOp(args, msa)
         ELSE /\ ret' = NoRet
              /\ start_args' = [set |-> TRUE, args |-> args,
                                max_start_attempts |-> msa,
                                start_timeout |-> NoneInt]
              /\ process_running' = FALSE
              /\ start_attempts' = Or(msa, max_start_attempts)
              /\ current_attempt' = 0
              /\ run_arguments' = args
              /\ attempts_log' = << >>
              /\ pc' = "start_loop"
              /\ last' = "call:start"
    /\ UNCHANGED <<cfgVars, sideVars, start_checks_callbacks, engVars, cb_count, next_root, stack, rv, checks_rv,
                   timmed_out, engine_exc, cb_i, clock, queue, tlog, termHist,
                   checkHist>>

\* The head of "while True": leave on success, count the attempt, give up
\* after start_attempts attempts.
StartLoop ==
    /\ pc = "start_loop"
    /\ clock' = 0
    /\ IF process_running
         THEN /\ pc' = "start_after"
              /\ last' = "start:running"
              /\ UNCHANGED <<current_attempt, attempts_log, stack>>
         ELSE /\ current_attempt' = current_attempt + 1
              /\ IF current_attempt + 1 > start_attempts
                   THEN /\ pc' = "terminate"
                        /\ stack' = <<"start_raise">>
                        /\ last' = "start:exhausted"
                        /\ UNCHANGED attempts_log
                   ELSE /\ pc' = "start_before"
                        /\ attempts_log' = Append(attempts_log,
                                                  [attempt |-> current_attempt + 1,
                                                   of |-> start_attempts])
                        /\ last' = "start:attempt"
                        /\ UNCHANGED stack
    /\ cb_i' = 1
    /\ UNCHANGED <<cfgVars, sideVars, start_checks_callbacks, engVars, start_args, cb_count, osVars, rv,
                   checks_rv, timmed_out, engine_exc, process_running,
                   start_attempts, run_arguments, queue, ncalls, op, call_args, _timeout,
                   ret, tlog, spawned_by_call, termHist, checkHist>>

\* Variant: the before-start callbacks run for the first attempt only.
StartBefore_firstAttemptOnly ==
    /\ pc = "start_before"
    /\ IF current_attempt > 1
         THEN /\ pc' = "start_spawn"
              /\ last' = "before_start:done"
              /\ UNCHANGED <<cb_i, cb_count, tlog, stack, ret>>
         ELSE RunCallback(BeforeStartCallbacks, "start_spawn", "before_start")
    /\ UNCHANGED <<cfgVars, sideVars, start_checks_callbacks, engVars, start_args, osVars, rv, checks_rv,
                   timmed_out, engine_exc, startLocals, ncalls, op, call_args, _timeout,
                   attempts_log, spawned_by_call, termHist, checkHist>>

StartBefore ==
    /\ pc = "start_before"
    /\ RunCallback(BeforeStartCallbacks, "start_spawn", "before_start")
    /\ UNCHANGED <<cfgVars, sideVars, start_checks_callbacks, engVars, start_args, osVars, rv, checks_rv,
                   timmed_out, engine_exc, startLocals, ncalls, op, call_args, _timeout,
                   attempts_log, spawned_by_call, termHist, checkHist>>

\* Variant: the extra arguments are added from the first attempt on.
RetryArguments_everyAttempt(extra_cli_arguments) ==
    IF extra_cli_arguments_after_first_start_failure # << >>
      THEN extra_cli_arguments
           \o extra_cli_arguments_after_first_start_failure
      ELSE run_arguments

\* "if current_attempt > 1 and
\* self.factory.extra_cli_arguments_after_first_start_failure:
\* run_arguments = list(extra_cli_arguments) + list(...)"
RetryArguments(extra_cli_arguments) ==
    IF current_attempt > 1
       /\ extra_cli_arguments_after_first_start_failure # << >>
      THEN extra_cli_arguments
           \o extra_cli_arguments_after_first_start_failure
      ELSE run_arguments

\* The deadline of the attempt is taken, the arguments of a retry are put
\* together, then self.run(*run_arguments).
StartSpawn ==
    /\ pc = "start_spawn"
    /\ clock' = 0
    /\ run_arguments' = RetryArguments(call_args)
    /\ pc' = "popen"
    /\ stack' = <<"start_postrun">>
    /\ last' = "start:run"
    /\ UNCHANGED <<cfgVars, sideVars, start_checks_callbacks, engVars, start_args, cb_count, osVars, rv,
                   checks_rv, timmed_out, engine_exc, cb_i, process_running,
                   start_attempts, current_attempt, queue,
                   ncalls, op, call_args, _timeout, ret, tlog, attempts_log,
                   spawned_by_call, termHist, checkHist>>

\* "if not self.is_running(): time.sleep(0.5)"
StartPostRun ==
    /\ pc = "start_postrun"
    /\ procs' = Polled(procs)
    /\ pc' = "start_poll"
    /\ last' = "start:postrun"
    /\ UNCHANGED <<cfgVars, sideVars, start_checks_callbacks, engVars, start_args, cb_count, next_root, stack, rv,
                   checks_rv, timmed_out, engine_exc, cb_i, startLocals, ncalls,
                   op, call_args, _timeout, ret, tlog, attempts_log, spawned_by_call,
                   termHist, checkHist>>

\* The head of "while time.time() <= start_running_timeout", its else
\* branch, and the test for a process that is no longer running.
StartPoll ==
    /\ pc = "start_poll"
    /\ IF DeadlinePassed
         THEN /\ pc' = "terminate"
              /\ stack' = <<"start_loop">>
              /\ last' = "start:deadline"
              /\ procs' = procs
         ELSE /\ procs' = Polled(procs)
              /\ IF ~is_running
                   THEN /\ pc' = "terminate"
                        /\ stack' = <<"start_loop">>
                        /\ last' = "start:died"
                   ELSE /\ pc' = "checks_entry"
                        /\ stack' = <<"start_checked">>
                        /\ last' = "start:poll"
    /\ UNCHANGED <<cfgVars, sideVars, start_checks_callbacks, engVars, start_args, cb_count, next_root, rv,
                   checks_rv, timmed_out, engine_exc, cb_i, startLocals, ncalls,
                   op, call_args, _timeout, ret, tlog, attempts_log, spawned_by_call,
                   termHist, checkHist>>

\* Daemon.get_start_check_callbacks
get_start_check_callbacks == start_checks_callbacks

\* run_start_checks up to its loop: a private copy of the callback list.
ChecksEntry ==
    /\ pc = "checks_entry"
    /\ queue' = get_start_check_callbacks
    /\ check_last' = [id |-> "none", outcome |-> "none"]
    /\ check_true_before' = {}
    /\ IF get_start_check_callbacks = << >>
         THEN /\ checks_rv' = "True"
              /\ pc' = Head(stack)
              /\ stack' = Tail(stack)
              /\ last' = "checks:return"
         ELSE /\ checks_rv' = "none"
              /\ pc' = "checks_loop"
              /\ stack' = stack
              /\ last' = "checks:enter"
    /\ UNCHANGED <<cfgVars, sideVars, start_checks_callbacks, engVars, start_args, cb_count, osVars, rv,
                   timmed_out, engine_exc, cb_i, process_running,
                   start_attempts, current_attempt, run_arguments, clock,
                   ncalls, op, call_args, _timeout, ret, tlog, attempts_log,
                   spawned_by_call, termHist>>

\* Variant: any check that returns is popped, whatever it returned.
AfterCheck_popReturned(q, o) == IF o \in {"True", "False"} THEN Tail(q) ELSE q

\* "ret = start_check(timeout_at); if ret is True: pop(0)", with the
\* "except Exception" around it: only a True leaves the head of the queue.
AfterCheck(q, o) == IF o = "True" THEN Tail(q) ELSE q

\* Variant: the loop works on the permanent list itself.
PermanentList_aliased(perm, q) == q

\* "start_check_callbacks = list(self.get_start_check_callbacks())": the
\* loop pops from a copy, the permanent list is left as it is.
PermanentList(perm, q) == perm

\* One iteration of the loop of run_start_checks, or its end.
ChecksLoop ==
    /\ pc = "checks_loop"
    /\ IF DeadlinePassed
         THEN /\ checks_rv' = IF queue = << >> THEN "True" ELSE "False"
              /\ pc' = Head(stack)
              /\ stack' = Tail(stack)
              /\ last' = "checks:return"
              /\ UNCHANGED <<procs, queue, checkHist>>
         ELSE /\ procs' = Polled(procs)
              /\ IF ~is_running
                   THEN /\ checks_rv' = "FactoryNotStarted"
                        /\ pc' = Head(stack)
                        /\ stack' = Tail(stack)
                        /\ last' = "checks:not_running"
                        /\ UNCHANGED <<queue, checkHist>>
                   ELSE IF queue = << >>
                     THEN /\ checks_rv' = "True"
                          /\ pc' = Head(stack)
                          /\ stack' = Tail(stack)
                          /\ last' = "checks:return"
                          /\ UNCHANGED <<queue, checkHist>>
                     ELSE \E o \in CheckOutcomes :
                            /\ check_last' = [id |-> Head(queue), outcome |-> o]
                            /\ check_true_before' = check_true_before \cup
                                 (IF check_last.outcome = "True"
                                    THEN {check_last.id} ELSE {})
                            /\ queue' = AfterCheck(queue, o)
                            /\ last' = "checks:check"
                            /\ UNCHANGED <<checks_rv, pc, stack>>
    /\ start_checks_callbacks' = PermanentList(start_checks_callbacks, queue')
    /\ UNCHANGED <<cfgVars, sideVars, engVars, start_args, cb_count, next_root, rv,
                   timmed_out, engine_exc, cb_i, process_running,
                   start_attempts, current_attempt, run_arguments, clock,
                   ncalls, op, call_args, _timeout, ret, tlog, attempts_log,
                   spawned_by_call, termHist>>

(***************************************************************************)
(* Daemon._check_listening_ports, the built-in readiness check, run for    *)
(* real against the ports the environment has open.                        *)
(***************************************************************************)
Ports == 1..MaxPorts

\* utils/ports.get_connectable_ports: the ports of the given set on which a
\* connection succeeds.
get_connectable_ports(ports) == ports \cap listening

\* What the port check leaves alone.
portFrame == <<cfgVars, cached_ports, got_ports, process_result, callback, threads, tpl, connections, check_ports, ctx, engVars, start_args, cb_count,
               next_root, rv, checks_rv, timmed_out, engine_exc, cb_i,
               process_running, start_attempts, current_attempt,
               run_arguments, ncalls, op, call_args, _timeout, ret, tlog, attempts_log,
               spawned_by_call, termHist, start_checks_callbacks, stack>>

\* run_start_checks reaches the built-in port check at the head of its queue
\* and calls it with the deadline of the attempt.
ChecksCallPortCheck ==
    /\ pc = "checks_loop"
    /\ ~DeadlinePassed
    /\ procs' = Polled(procs)
    /\ is_running
    /\ queue # << >>
    /\ Head(queue) = "_check_listening_ports"
    /\ pc' = "port_check_entry"
    /\ last' = "checks:call_port_check"
    /\ UNCHANGED <<portFrame, listening, port_check, clock, queue, checkHist>>

\* check_ports = set(self.get_check_ports()); an empty set is success.
PortCheckEntry ==
    /\ pc = "port_check_entry"
    /\ port_check' = [remaining |-> check_ports, confirmed |-> {},
                      rv |-> IF check_ports = {} THEN "True" ELSE "none"]
    /\ pc' = IF check_ports = {} THEN "port_check_return"
             ELSE "port_check_loop"
    /\ last' = "port_check:entry"
    /\ UNCHANGED <<portFrame, listening, procs, clock, queue, checkHist>>

\* The else branch of the while loop: the loop condition failed.
PortCheckTimedOut(remaining) == "False"

\* One test of the while condition and, if it holds, one pass of the body.
PortCheckLoop ==
    /\ pc = "port_check_loop"
    /\ IF DeadlinePassed
         THEN /\ port_check' = [port_check EXCEPT
                                  !.rv = PortCheckTimedOut(port_check.remaining)]
              /\ pc' = "port_check_return"
              /\ last' = "port_check:deadline"
              /\ UNCHANGED <<procs, clock>>
         ELSE /\ procs' = Polled(procs)
              /\ IF ~is_running
                   THEN /\ port_check' = [port_check EXCEPT
                                            !.rv = "FactoryNotStarted"]
                        /\ pc' = "port_check_return"
                        /\ last' = "port_check:not_running"
                        /\ UNCHANGED clock
                   ELSE IF port_check.remaining = {}
                     THEN /\ port_check' = [port_check EXCEPT !.rv = "True"]
                          /\ pc' = "port_check_return"
                          /\ last' = "port_check:break"
                          /\ UNCHANGED clock
                     ELSE LET found == get_connectable_ports(port_check.remaining)
                              left == port_check.remaining \ found
                          IN /\ port_check' =
                                  [port_check EXCEPT
                                     !.remaining = left,
                                     !.confirmed = @ \cup found]
                             \* time.sleep(1.5) while ports are left
                             /\ clock' = IF left # {} THEN clock + 1 ELSE clock
                             /\ pc' = "port_check_loop"
                             /\ last' = "port_check:pass"
    /\ UNCHANGED <<portFrame, listening, queue, checkHist>>

\* Back in run_start_checks with what the port check returned or raised.
PortCheckReturn ==
    /\ pc = "port_check_return"
    /\ check_last' = [id |-> Head(queue), outcome |-> port_check.rv]
    /\ check_true_before' = check_true_before \cup
         (IF check_last.outcome = "True" THEN {check_last.id} ELSE {})
    /\ queue' = AfterCheck(queue, port_check.rv)
    /\ pc' = "checks_loop"
    /\ last' = "checks:check"
    /\ UNCHANGED <<portFrame, listening, port_check, procs, clock>>

\* The loop of run_start_checks for everything but a call of the port check.
ChecksLoopOthers ==
    /\ ChecksLoop
    /\ (queue # << >> /\ Head(queue) = "_check_listening_ports")
         => last' # "checks:check"

\* The daemon process, or anything else, opens or closes a port.
EnvPort(p) ==
    /\ op = "start"
    /\ pc # "idle"
    /\ listening' = IF p \in listening THEN listening \ {p}
                    ELSE listening \cup {p}
    /\ UNCHANGED <<portFrame, port_check, procs, pc, last, clock, queue,
                   checkHist>>

\* What start() does with the outcome of run_start_checks.
StartChecked ==
    /\ pc = "start_checked"
    /\ checks_rv' = "none"
    /\ queue' = << >>
    /\ IF checks_rv = "False"
         THEN \* time.sleep(1); continue
              /\ clock' = IF clock <= StartTimeout THEN clock + 1 ELSE clock
              /\ pc' = "start_poll"
              /\ last' = "start:not_yet"
              /\ UNCHANGED <<process_running, stack>>
         ELSE IF checks_rv = "FactoryNotStarted"
           THEN /\ pc' = "terminate"
                /\ stack' = <<"start_loop">>
                /\ last' = "start:not_started"
                /\ UNCHANGED <<process_running, clock>>
           ELSE /\ process_running' = TRUE
                /\ pc' = "start_loop"
                /\ last' = "start:confirmed"
                /\ UNCHANGED <<stack, clock>>
    /\ UNCHANGED <<cfgVars, sideVars, start_checks_callbacks, engVars, start_args, cb_count, osVars, rv,
                   timmed_out, engine_exc, cb_i, start_attempts,
                   current_attempt, run_arguments, ncalls, op, call_args, _timeout, ret,
                   tlog, attempts_log, spawned_by_call, termHist, checkHist>>

StartAfter ==
    /\ pc = "start_after"
    /\ IF cb_i > Len(AfterStartCallbacks)
         THEN /\ pc' = "idle"
              /\ ret' = [op |-> "start", kind |-> "return", val |-> "True",
                         result |-> NoResult, attempts |-> current_attempt]
              /\ cb_i' = 1
              /\ last' = "start:return"
              /\ UNCHANGED <<cb_count, tlog, stack>>
         ELSE RunCallback(AfterStartCallbacks, "start_after", "after_start")
    /\ UNCHANGED <<cfgVars, sideVars, start_checks_callbacks, engVars, start_args, osVars, rv, checks_rv,
                   timmed_out, engine_exc, startLocals, ncalls, op, call_args, _timeout,
                   attempts_log, spawned_by_call, termHist, checkHist>>

\* Variant: the loop counter itself, one past the attempts made.
AttemptsNamed_loopCounter == current_attempt

\* The attempt count in the message of the final FactoryNotStarted.
AttemptsNamed == current_attempt - 1

\* "result = self.terminate()" has returned: raise FactoryNotStarted.
StartRaise ==
    /\ pc = "start_raise"
    /\ Raise("FactoryNotStarted", rv, AttemptsNamed)
    /\ last' = "start:FactoryNotStarted"
    /\ UNCHANGED <<cfgVars, sideVars, start_checks_callbacks, engVars, start_args, cb_count, osVars, rv,
                   checks_rv, timmed_out, engine_exc, cb_i, startLocals, ncalls,
                   op, call_args, _timeout, tlog, attempts_log, spawned_by_call, termHist,
                   checkHist>>

\* Time passes while an attempt of start() is under way.
Tick ==
    /\ op = "start"
    /\ pc \in {"popen", "init_wait", "start_postrun", "start_poll",
               "checks_entry", "checks_loop", "start_checked",
               "port_check_entry", "port_check_loop", "port_check_return"}
    /\ clock <= StartTimeout
    /\ clock' = clock + 1
    /\ UNCHANGED <<cfgVars, sideVars, start_checks_callbacks, engVars, start_args, cb_count, osVars, pc, stack,
                   rv, checks_rv, timmed_out, engine_exc, cb_i,
                   process_running, start_attempts, current_attempt,
                   run_arguments, queue, ncalls, op, call_args, _timeout, ret, last, tlog,
                   attempts_log, spawned_by_call, termHist, checkHist>>

(***************************************************************************)
(* The context managers of a Daemon: started(), stopped() and the daemon   *)
(* itself (__enter__ / __exit__).  A frame calls start() and terminate()   *)
(* as the test code does, and goes on when the call has returned or        *)
(* raised; the body of the with statement is the caller's.                 *)
(***************************************************************************)
ctxFrame == <<cfgVars, cached_ports, got_ports, process_result, callback, threads, tpl, check_ports, listening, connections, port_check, engVars,
              start_args, cb_count, next_root, pc, stack, rv, checks_rv,
              timmed_out, engine_exc, cb_i, startLocals, ncalls, op,
              call_args, _timeout, ret, last, tlog, attempts_log, spawned_by_call,
              termHist, checkHist, start_checks_callbacks>>

\* The four optional callbacks of stopped(), and what the caller passes.
StoppedCallbacks == {"before_stop", "after_stop", "before_start", "after_start"}
StoppedCallbackChoices == {{}, {"before_stop", "after_start"}, StoppedCallbacks}

\* What an optional callback does: it returns, raises CallbackException
\* (caught and logged) or raises something else.
OptionalOutcomes == {"ok", "CallbackException", "Exception"}

\* What the body of the with statement does.
BodyOutcomes == {"normal", "ShellUtilsException", "Exception"}

\* No context manager is in use: the test code is free to call the daemon.
CtxIdle == ctx.phase \in {"none", "done"}

\* The call the frame was waiting for has been made and is over.
CallOver == pc = "idle" /\ ncalls > ctx.n

LeaveCtx(c, k, v) ==
    [c EXCEPT !.phase = "done", !.n = ncalls,
              !.result = [kind |-> k, val |-> v]]

\* The test code has made no call since the context manager was left.
JustLeft == ctx.phase = "done" /\ ncalls = ctx.n

\* The test code calls start() or terminate() outside of a context manager.
UserStart(args, msa) ==
    /\ CtxIdle
    /\ CallStart(args, msa)

UserTerminate ==
    /\ CtxIdle
    /\ CallTerminate

\* self.start(...) and self.terminate() called from a context-manager frame.
CtxStart ==
    /\ ctx.phase = "start"
    /\ ncalls = ctx.n
    /\ CallStart(ctx.args, ctx.msa)

CtxTerminate ==
    /\ ctx.phase = "terminate"
    /\ ncalls = ctx.n
    /\ CallTerminate

\* "with daemon.started(*args, max_start_attempts=msa):" is entered.
StartedEnter(args, msa) ==
    /\ pc = "idle"
    /\ CtxIdle
    /\ kind = "Daemon"
    /\ ncalls + 2 <= MaxCalls
    /\ next_root + Or(msa, max_start_attempts) - 1 <= MaxRoots
    /\ ctx' = [NoCtx EXCEPT !.flow = "started", !.phase = "start",
                             !.n = ncalls, !.args = args, !.msa = msa,
                             !.was_running = is_running]
    /\ UNCHANGED <<ctxFrame, procs>>

\* Variant: the cleanup of started() is skipped when an exception is pending.
FinallyRuns_onlyOnSuccess(exc) == exc = "none"

\* "try: ... finally: self.terminate()": the cleanup runs on every exit.
FinallyRuns(exc) == TRUE

\* start() is over: the frame yields, or start() has raised and the finally
\* clause is next.
StartedAfterStart ==
    /\ ctx.flow = "started"
    /\ ctx.phase = "start"
    /\ CallOver
    /\ IF ret.kind = "return"
         THEN ctx' = [ctx EXCEPT !.phase = "body",
                                 !.log = Append(@, "start")]
         ELSE IF FinallyRuns(ret.val)
           THEN ctx' = [ctx EXCEPT !.phase = "terminate", !.n = ncalls,
                                   !.exc = ret.val,
                                   !.log = Append(@, "start")]
           ELSE ctx' = LeaveCtx([ctx EXCEPT !.log = Append(@, "start")],
                                "raise", ret.val)
    /\ UNCHANGED <<ctxFrame, procs>>

\* Variant: a system exception of the body is swallowed by stopped().
StoppedElse_afterSystemException(outcome) ==
    outcome \in {"normal", "ShellUtilsException"}

\* "except ShellUtilsException: raise / else: ...": the restart half runs
\* only when the body raised nothing.
StoppedElse(outcome) == outcome = "normal"

\* The body of the with statement runs and ends.
CtxBody(outcome) ==
    /\ ctx.phase = "body"
    /\ pc = "idle"
    /\ LET c == [ctx EXCEPT !.log = Append(@, "body"),
                            !.body = outcome,
                            !.body_running = is_running,
                            !.exc = IF outcome = "normal" THEN "none"
                                    ELSE outcome]
       IN CASE ctx.flow = "started" ->
                 ctx' = IF FinallyRuns(c.exc)
                          THEN [c EXCEPT !.phase = "terminate", !.n = ncalls]
                          ELSE LeaveCtx(c, "raise", c.exc)
            [] ctx.flow = "with" ->
                 ctx' = [c EXCEPT !.phase = "terminate", !.n = ncalls]
            [] OTHER ->
                 ctx' = IF StoppedElse(outcome)
                          THEN [c EXCEPT !.phase = "before_start",
                                         !.exc = "none"]
                          ELSE LeaveCtx(c, "raise", outcome)
    /\ UNCHANGED <<ctxFrame, procs>>

\* The finally clause of started() and __exit__ are over: what the body or
\* start() raised goes on to the caller.
CtxExit ==
    /\ ctx.flow \in {"started", "with"}
    /\ ctx.phase = "terminate"
    /\ CallOver
    /\ ctx' = LET c == [ctx EXCEPT !.log = Append(@, "terminate")]
              IN IF ret.kind = "raise" THEN LeaveCtx(c, "raise", ret.val)
                 ELSE IF ctx.exc # "none" THEN LeaveCtx(c, "raise", ctx.exc)
                 ELSE LeaveCtx(c, "return", "None")
    /\ UNCHANGED <<ctxFrame, procs>>

\* Variant: the daemon can be entered whether it runs or not.
EnterAllowed_always(running) == TRUE

\* __enter__: "if not self.is_running(): raise RuntimeError(...)".
EnterAllowed(running) == running

\* "with daemon:" is entered.
WithEnter ==
    /\ pc = "idle"
    /\ CtxIdle
    /\ kind = "Daemon"
    /\ ncalls + 1 <= MaxCalls
    /\ procs' = Polled(procs)
    /\ LET c == [NoCtx EXCEPT !.flow = "with", !.n = ncalls,
                              !.was_running = is_running]
       IN ctx' = IF EnterAllowed(is_running)
                   THEN [c EXCEPT !.phase = "body"]
                   ELSE LeaveCtx(c, "raise", "RuntimeError")
    /\ UNCHANGED ctxFrame

\* Variant: the start arguments are not handed to the restart.
RestartArguments_none == NoStartArgs

\* "start_arguments = self.impl.get_start_arguments()"
RestartArguments == start_args

\* Variant: stopped() goes on whether the daemon runs or not.
StoppedAllowed_always(running) == TRUE

\* stopped(): "if not self.is_running(): raise FactoryNotRunning(...)".
StoppedAllowed(running) == running

\* "with daemon.stopped(...):" is entered with some of the callbacks.
StoppedEnter(cbs) ==
    /\ pc = "idle"
    /\ CtxIdle
    /\ kind = "Daemon"
    /\ ncalls + 2 <= MaxCalls
    /\ next_root + Or(RestartArguments.max_start_attempts, max_start_attempts)
         - 1 <= MaxRoots
    /\ procs' = Polled(procs)
    /\ LET c == [NoCtx EXCEPT !.flow = "stopped", !.n = ncalls, !.cbs = cbs,
                              !.was_running = is_running,
                              !.launch = [pid |-> terminal.pid,
                                          cmdline |-> terminal.args,
                                          attempts |-> start_attempts]]
       IN ctx' = IF StoppedAllowed(is_running)
                   THEN [c EXCEPT !.phase = "before_stop",
                                  !.args = RestartArguments.args,
                                  !.msa = RestartArguments.max_start_attempts]
                   ELSE LeaveCtx(c, "raise", "FactoryNotRunning")
    /\ UNCHANGED ctxFrame

\* "if callback: try: callback(self) except CallbackException: log.info":
\* the frame after an optional callback, then_phase being what follows it.
AfterOptional(c, name, o, then_phase) ==
    IF name \notin c.cbs THEN [c EXCEPT !.phase = then_phase, !.n = ncalls]
    ELSE IF o = "Exception"
      THEN LeaveCtx([c EXCEPT !.log = Append(@, name)], "raise", "Exception")
      ELSE [c EXCEPT !.log = Append(@, name), !.phase = then_phase,
                     !.n = ncalls]

StoppedBeforeStop(o) ==
    /\ ctx.flow = "stopped"
    /\ ctx.phase = "before_stop"
    /\ ctx' = AfterOptional(ctx, "before_stop", o, "terminate")
    /\ UNCHANGED <<ctxFrame, procs>>

\* terminate() is over: after_stop_callback, then the frame yields.
StoppedAfterStop(o) ==
    /\ ctx.flow = "stopped"
    /\ ctx.phase = "terminate"
    /\ CallOver
    /\ ctx' = LET c == [ctx EXCEPT !.log = Append(@, "terminate")]
              IN IF ret.kind = "raise" THEN LeaveCtx(c, "raise", ret.val)
                 ELSE AfterOptional(c, "after_stop", o, "body")
    /\ UNCHANGED <<ctxFrame, procs>>

StoppedBeforeStart(o) ==
    /\ ctx.flow = "stopped"
    /\ ctx.phase = "before_start"
    /\ ctx' = AfterOptional(ctx, "before_start", o, "start")
    /\ UNCHANGED <<ctxFrame, procs>>

\* The restart is over: "if _started:" after_start_callback, and the end.
StoppedAfterStart(o) ==
    /\ ctx.flow = "stopped"
    /\ ctx.phase = "start"
    /\ CallOver
    /\ ctx' = LET c == [ctx EXCEPT !.log = Append(@, "start")]
              IN IF ret.kind = "raise" THEN LeaveCtx(c, "raise", ret.val)
                 ELSE LET a == AfterOptional(c, "after_start", o, "done")
                      IN IF a.phase = "done" /\ a.result.kind = "none"
                           THEN LeaveCtx(a, "return", "None")
                           ELSE a
    /\ UNCHANGED <<ctxFrame, procs>>

Program ==
    \/ Popen
    \/ InitWait
    \/ EngineTerminateCached
    \/ EngineTerminateSignal
    \/ EngineTerminateTree
    \/ TerminateEntry
    \/ TerminateBefore
    \/ TerminateAfter
    \/ CallTerminate
    \/ \E args \in ArgChoices, t \in TimeoutChoices : CallRun(args, t)
    \/ RunCommunicate
    \/ RunResult
    \/ \E args \in ArgChoices, msa \in {NoneInt} \cup (1..MaxAttempts) :
         CallStart(args, msa)
    \/ StartLoop
    \/ StartBefore
    \/ StartSpawn
    \/ StartPostRun
    \/ StartPoll
    \/ ChecksEntry
    \/ ChecksLoop
    \/ StartChecked
    \/ StartAfter
    \/ StartRaise

Next ==
    \/ Program
    \/ Tick
    \/ \E p \in Pids : EnvExit(p)

Spec == Init /\ [][Next]_vars

(***************************************************************************)
(* A daemon that is only started, with arguments for the retries           *)
(* configured or not.                                                      *)
(***************************************************************************)
InitStart ==
    /\ kind = "Daemon"
    /\ slow_stop = FALSE
    /\ timeout = NoneInt
    /\ max_start_attempts \in 1..MaxAttempts
    /\ extra_cli_arguments_after_first_start_failure \in {<< >>, <<"-r">>}
    /\ InitIdle
    /\ InitNoProcess
    /\ InitNoSide

NextStart ==
    \/ Popen
    \/ InitWait
    \/ EngineTerminateSignal
    \/ EngineTerminateTree
    \/ TerminateEntry
    \/ TerminateBefore
    \/ TerminateAfter
    \/ \E args \in ArgChoices : CallStart(args, NoneInt)
    \/ StartLoop
    \/ StartBefore
    \/ StartSpawn
    \/ StartPostRun
    \/ StartPoll
    \/ ChecksEntry
    \/ ChecksLoop
    \/ StartChecked
    \/ StartAfter
    \/ StartRaise
    \/ Tick
    \/ \E p \in Pids : EnvExit(p)

SpecStart == InitStart /\ [][NextStart]_vars

\* The steps of the thread that is inside start(): it is never blocked, every
\* callback and every start check returns.
StartProgram ==
    \/ Popen
    \/ InitWait
    \/ EngineTerminateSignal
    \/ EngineTerminateTree
    \/ TerminateEntry
    \/ TerminateBefore
    \/ TerminateAfter
    \/ StartLoop
    \/ StartBefore
    \/ StartSpawn
    \/ StartPostRun
    \/ StartPoll
    \/ ChecksEntry
    \/ ChecksLoop
    \/ StartChecked
    \/ StartAfter
    \/ StartRaise

\* The same program where the thread keeps running and time keeps passing.
\* The managed process is free to exit or to stay.
SpecStartFair ==
    /\ InitStart
    /\ [][NextStart]_vars
    /\ WF_vars(StartProgram)
    /\ WF_vars(Tick)

(***************************************************************************)
(* The same program with a script that may be missing when the command     *)
(* line is built.                                                          *)
(***************************************************************************)
\* What the file system says about script_name at the time of the call: it
\* is an absolute path or not, shutil.which() finds it or not, the path
\* exists or not.
ScriptStates == [isabs : BOOLEAN, which : BOOLEAN, exists : BOOLEAN]

\* ScriptSubprocess.get_script_path
get_script_path(fs) ==
    LET script_path == IF fs.isabs THEN "script"
                       ELSE IF fs.which THEN "script" ELSE "None"
    IN IF script_path = "None" \/ ~fs.exists THEN "FileNotFoundError"
       ELSE script_path

\* Variant: the sinks are opened before the command line is built.
ScriptNotFound_afterSinks(fs) ==
    /\ pc = "popen"
    /\ get_script_path(fs) = "FileNotFoundError"
    /\ Raise("FileNotFoundError", NoResult, 0)
    /\ last' = "cmdline:FileNotFoundError"
    /\ terminal_stdout' = "open"
    /\ terminal_stderr' = "open"
    /\ UNCHANGED <<cfgVars, sideVars, start_checks_callbacks, terminal,
                   terminal_result, terminal_timeout, children, atexit,
                   osVars, start_args, cb_count, rv, checks_rv, timmed_out,
                   engine_exc, cb_i, startLocals, ncalls, op, call_args,
                   _timeout, tlog, attempts_log, spawned_by_call, termHist,
                   checkHist>>

\* SubprocessImpl.run: self.cmdline(*args) raises before init_terminal is
\* called; neither run() nor start() catches the exception.
ScriptNotFound(fs) ==
    /\ pc = "popen"
    /\ get_script_path(fs) = "FileNotFoundError"
    /\ Raise("FileNotFoundError", NoResult, 0)
    /\ last' = "cmdline:FileNotFoundError"
    /\ UNCHANGED <<cfgVars, sideVars, start_checks_callbacks, engVars,
                   osVars, start_args, cb_count, rv, checks_rv, timmed_out,
                   engine_exc, cb_i, startLocals, ncalls, op, call_args,
                   _timeout, tlog, attempts_log, spawned_by_call, termHist,
                   checkHist>>

NextScript ==
    \/ Next
    \/ \E fs \in ScriptStates : ScriptNotFound(fs)

\* The configuration that matters here: any kind of factory, any timeout.
InitScript ==
    /\ Init
    /\ slow_stop = TRUE

SpecScript == InitScript /\ [][NextScript]_vars

(***************************************************************************)
(* The same program with spawned processes that fork: process trees.       *)
(***************************************************************************)
InitTree ==
    /\ Init
    /\ kind = "Daemon" => max_start_attempts = 1

NextTree ==
    \/ Popen
    \/ InitWait
    \/ EngineTerminateCached
    \/ EngineTerminateSignal
    \/ EngineTerminateTree
    \/ TerminateEntry
    \/ TerminateBefore
    \/ TerminateAfter
    \/ CallTerminate
    \/ \E t \in TimeoutChoices : CallRun(<< >>, t)
    \/ RunCommunicate
    \/ RunResult
    \/ CallStart(<< >>, NoneInt)
    \/ StartLoop
    \/ StartBefore
    \/ StartSpawn
    \/ StartPostRun
    \/ StartPoll
    \/ ChecksEntry
    \/ ChecksLoop
    \/ StartChecked
    \/ StartAfter
    \/ StartRaise
    \/ \E p \in Pids : EnvExit(p)
    \/ \E p \in Pids, k \in Kinds : EnvFork(p, k)

SpecTree == InitTree /\ [][NextTree]_vars

(***************************************************************************)
(* A daemon configured with ports to check: start() runs the built-in port *)
(* check instead of an abstract first check.                               *)
(***************************************************************************)
InitPorts ==
    /\ kind = "Daemon"
    /\ slow_stop = TRUE
    /\ timeout = NoneInt
    /\ max_start_attempts = 1
    /\ extra_cli_arguments_after_first_start_failure = << >>
    /\ InitIdle
    /\ InitNoProcess
    /\ tpl = NoTpl
    /\ check_ports \in SUBSET Ports
    /\ listening = {}
    /\ connections = {}
    /\ cached_ports = {}
    /\ got_ports = << >>
    /\ process_result = NoProcessResult
    /\ callback = NoCallback
    /\ threads = NoThreads
    /\ port_check = NoPortCheck
    /\ ctx = NoCtx

NextPorts ==
    \/ Popen
    \/ InitWait
    \/ EngineTerminateSignal
    \/ EngineTerminateTree
    \/ TerminateEntry
    \/ TerminateBefore
    \/ TerminateAfter
    \/ CallStart(<< >>, NoneInt)
    \/ StartLoop
    \/ StartBefore
    \/ StartSpawn
    \/ StartPostRun
    \/ StartPoll
    \/ ChecksEntry
    \/ ChecksCallPortCheck
    \/ PortCheckEntry
    \/ PortCheckLoop
    \/ PortCheckReturn
    \/ ChecksLoopOthers
    \/ StartChecked
    \/ StartAfter
    \/ StartRaise
    \/ Tick
    \/ \E p \in Ports : EnvPort(p)
    \/ \E p \in Pids : EnvExit(p)

SpecPorts == InitPorts /\ [][NextPorts]_vars

(***************************************************************************)
(* A daemon used through its context managers.                             *)
(***************************************************************************)
InitCtx ==
    /\ kind = "Daemon"
    /\ slow_stop \in BOOLEAN
    /\ timeout = NoneInt
    /\ max_start_attempts = 1
    /\ extra_cli_arguments_after_first_start_failure = << >>
    /\ InitIdle
    /\ InitNoProcess
    /\ InitNoSide

NextCtx ==
    \/ Popen
    \/ InitWait
    \/ EngineTerminateCached
    \/ EngineTerminateSignal
    \/ EngineTerminateTree
    \/ TerminateEntry
    \/ TerminateBefore
    \/ TerminateAfter
    \/ StartLoop
    \/ StartBefore
    \/ StartSpawn
    \/ StartPostRun
    \/ StartPoll
    \/ ChecksEntry
    \/ ChecksLoop
    \/ StartChecked
    \/ StartAfter
    \/ StartRaise
    \/ \E args \in ArgChoices : UserStart(args, NoneInt)
    \/ UserTerminate
    \/ CtxStart
    \/ CtxTerminate
    \/ \E args \in ArgChoices : StartedEnter(args, NoneInt)
    \/ StartedAfterStart
    \/ \E o \in BodyOutcomes : CtxBody(o)
    \/ CtxExit
    \/ WithEnter
    \/ \E cbs \in StoppedCallbackChoices : StoppedEnter(cbs)
    \/ \E o \in OptionalOutcomes : StoppedBeforeStop(o)
    \/ \E o \in OptionalOutcomes : StoppedAfterStop(o)
    \/ \E o \in OptionalOutcomes : StoppedBeforeStart(o)
    \/ \E o \in OptionalOutcomes : StoppedAfterStart(o)
    \/ \E p \in Pids : EnvExit(p)

SpecCtx == InitCtx /\ [][NextCtx]_vars

(***************************************************************************)
(* terminate_process_list called directly by the test code on a list of    *)
(* processes it has spawned and of their descendants.                      *)
(***************************************************************************)
listFrame == <<cfgVars, check_ports, listening, port_check, ctx, engVars,
               start_args, cb_count, pc, stack, rv, checks_rv, timmed_out,
               engine_exc, cb_i, startLocals, ncalls, op, call_args, _timeout, ret,
               last, tlog, attempts_log, spawned_by_call, termHist, checkHist,
               start_checks_callbacks>>

\* The process lists a caller can pass: existing processes, in any order,
\* the same process possibly twice.
ProcessLists(tbl) ==
    LET E == {q \in Pids : pid_exists(tbl, q)}
    IN UNION {[1..n -> E] : n \in 1..MaxListLen}

\* The test code spawns a process of its own (subprocess.Popen).
ListSpawn(k) ==
    /\ tpl.phase = "none"
    /\ next_root <= MaxRoots
    /\ procs' = [procs EXCEPT ![next_root] = [st |-> "alive", parent |-> 0,
                                              kind |-> k]]
    /\ next_root' = next_root + 1
    /\ UNCHANGED <<listFrame, cached_ports, got_ports, process_result, callback, threads, connections, tpl>>

ListFork(p, k) ==
    /\ tpl.phase = "none"
    /\ EnvFork(p, k)

ListExit(p) ==
    /\ tpl.phase = "none"
    /\ EnvExit(p)

\* terminate_process_list(process_list, kill=kill, slow_stop=slow_stop);
\* the processes of linger take until the next wait to end.
ListTerminate(process_list, kill, slow, linger) ==
    /\ tpl.phase = "none"
    /\ linger \subseteq SeqToSet(process_list)
    /\ \E res \in {terminate_process_list(procs, process_list, kill, slow,
                                           linger)} :
          /\ procs' = res.tbl
          /\ tpl' = [phase |-> "done", list |-> process_list, kill |-> kill,
                     slow_stop |-> slow,
                     out |-> [list |-> res.list, raised |-> res.raised,
                              rounds |-> res.rounds, warned |-> res.warned,
                              sent |-> res.sent,
                              alive_after |-> res.alive_after,
                              deduped |-> res.deduped,
                              counts |-> res.counts],
                     call |-> NoCall]
    /\ UNCHANGED <<listFrame, cached_ports, got_ports, process_result, callback, threads, connections, next_root>>

\* terminate_process(pid=target, ...) or terminate_process(process=target,
\* ...) on a process that exists or has gone, with the children the caller
\* supplies.
ListTerminateProcess(via, target, kids, kc, slow) ==
    /\ tpl.phase = "none"
    /\ procs[target].st # "unborn"
    /\ \A i \in 1..Len(kids) : pid_exists(procs, kids[i])
    /\ \E tp \in {terminate_process(procs,
                                     IF via = "pid" THEN target ELSE 0,
                                     IF via = "process" THEN target ELSE 0,
                                     kids, kc, slow, {})} :
          /\ procs' = tp.res.tbl
          /\ tpl' = [phase |-> "done_process", list |-> tp.handed,
                     kill |-> ~slow, slow_stop |-> slow,
                     out |-> [list |-> tp.res.list, raised |-> tp.res.raised,
                              rounds |-> tp.res.rounds,
                              warned |-> tp.res.warned, sent |-> tp.res.sent,
                              alive_after |-> tp.res.alive_after,
                              deduped |-> tp.res.deduped,
                              counts |-> tp.res.counts],
                     call |-> [via |-> via, target |-> target,
                               children |-> kids, kill_children |-> kc,
                               existed |-> pid_exists(procs, target),
                               tree |-> Closure(procs, {target}) \ {target}]]
    /\ UNCHANGED <<listFrame, cached_ports, got_ports, process_result, callback, threads, connections, next_root>>

InitList ==
    /\ kind = "Subprocess"
    /\ slow_stop = FALSE
    /\ timeout = NoneInt
    /\ max_start_attempts = 1
    /\ extra_cli_arguments_after_first_start_failure = << >>
    /\ InitIdle
    /\ InitNoProcess
    /\ InitNoSide

NextList ==
    \/ \E k \in Kinds : ListSpawn(k)
    \/ \E p \in Pids, k \in Kinds : ListFork(p, k)
    \/ \E p \in Pids : ListExit(p)
    \/ \E l \in ProcessLists(procs), kill \in BOOLEAN, slow \in BOOLEAN,
          linger \in SUBSET Pids : ListTerminate(l, kill, slow, linger)
    \/ \E via \in {"pid", "process"}, target \in Pids,
          kids \in {<< >>} \cup {<<q>> : q \in RootPids},
          kc \in {"None", "True", "False"}, slow \in BOOLEAN :
         ListTerminateProcess(via, target, kids, kc, slow)

SpecList == InitList /\ [][NextList]_vars

(***************************************************************************)
(* Daemon._terminate_processes_matching_listen_ports, the after-terminate  *)
(* callback that looks for processes still bound to the daemon's ports,    *)
(* run against processes the test code has spawned.                        *)
(***************************************************************************)
\* A process that listens nowhere yet binds a port nobody alive is bound to.
Listen(p, port) ==
    /\ tpl.phase = "none"
    /\ IsAlive(procs, p)
    /\ ~\E c \in connections : c.pid = p
    /\ ~\E c \in connections : c.port = port /\ IsAlive(procs, c.pid)
    /\ connections' = connections \cup {[pid |-> p, port |-> port]}
    /\ UNCHANGED <<listFrame, cached_ports, got_ports, process_result, callback, threads, tpl, osVars>>

\* The loop over psutil.process_iter(): a process is found when one of its
\* listening sockets is on one of the ports; process.connections() raises
\* ZombieProcess for a zombie and AccessDenied for a process of somebody
\* else, and both are skipped.
found_processes_anyport(tbl, conns, ports) ==
    SortedSeq({p \in Pids : /\ IsAlive(tbl, p)
                            /\ tbl[p].kind # "denied"
                            /\ \E c \in conns : c.pid = p})

found_processes(tbl, conns, ports) ==
    SortedSeq({p \in Pids : /\ IsAlive(tbl, p)
                            /\ tbl[p].kind # "denied"
                            /\ \E c \in conns : c.pid = p /\ c.port \in ports})

\* listen_ports holds the check_ports (__attrs_post_init__); with none the
\* callback returns at once, with nothing found it only logs.
_terminate_processes_matching_listen_ports(linger) ==
    /\ tpl.phase = "none"
    /\ \E found \in {IF check_ports = {} THEN << >>
                     ELSE found_processes(procs, connections, check_ports)} :
         /\ linger \subseteq SeqToSet(found)
         /\ IF found = << >>
              THEN /\ tpl' = [NoTpl EXCEPT !.phase = "done_sweep"]
                   /\ procs' = procs
              ELSE \E res \in {terminate_process_list(procs, found, TRUE,
                                                      FALSE, linger)} :
                     /\ procs' = res.tbl
                     /\ tpl' = [phase |-> "done_sweep", list |-> found,
                                kill |-> TRUE, slow_stop |-> FALSE,
                                out |-> [list |-> res.list,
                                         raised |-> res.raised,
                                         rounds |-> res.rounds,
                                         warned |-> res.warned,
                                         sent |-> res.sent,
                                         alive_after |-> res.alive_after,
                              deduped |-> res.deduped,
                              counts |-> res.counts],
                                call |-> NoCall]
    /\ UNCHANGED <<listFrame, cached_ports, got_ports, process_result, callback, threads, connections, next_root>>

InitSweep ==
    /\ kind = "Daemon"
    /\ slow_stop = FALSE
    /\ timeout = NoneInt
    /\ max_start_attempts = 1
    /\ extra_cli_arguments_after_first_start_failure = << >>
    /\ InitIdle
    /\ InitNoProcess
    /\ tpl = NoTpl
    /\ check_ports \in SUBSET Ports
    /\ listening = {}
    /\ connections = {}
    /\ cached_ports = {}
    /\ got_ports = << >>
    /\ process_result = NoProcessResult
    /\ callback = NoCallback
    /\ threads = NoThreads
    /\ port_check = NoPortCheck
    /\ ctx = NoCtx

NextSweep ==
    \/ \E k \in Kinds : ListSpawn(k)
    \/ \E p \in Pids, k \in Kinds : ListFork(p, k)
    \/ \E p \in Pids : ListExit(p)
    \/ \E p \in Pids, port \in Ports : Listen(p, port)
    \/ \E linger \in SUBSET Pids :
         _terminate_processes_matching_listen_ports(linger)

SpecSweep == InitSweep /\ [][NextSweep]_vars

(***************************************************************************)
(* get_unused_localhost_port called again and again by the test code.      *)
(***************************************************************************)
\* The ports the system hands out for a bind to port 0, the sockets one call
\* may go through, the calls made.
MaxEphemeral == 3
MaxBinds == 3
MaxPortCalls == 3
EphemeralPorts == 1..MaxEphemeral

\* Variant: the port is cached and returned without a look at the cache.
get_unused_localhost_port_unchecked(cache, binds, use_cache) ==
    [port |-> Head(binds), tries |-> 1,
     cache |-> IF use_cache THEN cache \cup {Head(binds)} ELSE cache]

\* binds are the ports the successive sockets get; a port found in the cache
\* makes the function call itself.  Port 0: the sockets at hand are used up
\* and the call is still going on.
RECURSIVE get_unused_localhost_port(_, _, _)
get_unused_localhost_port(cache, binds, use_cache) ==
    IF binds = << >>
      THEN [port |-> 0, tries |-> 0, cache |-> cache]
      ELSE LET port == Head(binds)
           IN IF use_cache /\ port \in cache
                THEN LET r == get_unused_localhost_port(cache, Tail(binds),
                                                        use_cache)
                     IN [r EXCEPT !.tries = @ + 1]
                ELSE [port |-> port, tries |-> 1,
                      cache |-> IF use_cache THEN cache \cup {port}
                                ELSE cache]

\* One call that returns.
CallGetPort(binds, use_cache) ==
    /\ Len(got_ports) < MaxPortCalls
    /\ \E r \in {get_unused_localhost_port(cached_ports, binds, use_cache)} :
         /\ r.port # 0
         /\ r.tries = Len(binds)
         /\ cached_ports' = r.cache
         /\ got_ports' = Append(got_ports, [port |-> r.port,
                                            use_cache |-> use_cache,
                                            tries |-> r.tries])
    /\ process_result' = process_result
    /\ UNCHANGED <<callback, threads>>
    /\ UNCHANGED <<listFrame, tpl, connections, osVars>>

InitCache ==
    /\ InitConfig
    /\ InitIdle
    /\ InitNoProcess
    /\ InitNoSide

NextCache ==
    \E binds \in UNION {[1..n -> EphemeralPorts] : n \in 1..MaxBinds},
       use_cache \in BOOLEAN : CallGetPort(binds, use_cache)

SpecCache == InitCache /\ [][NextCache]_vars

(***************************************************************************)
(* ProcessResult(returncode=0, stdout=..., stderr="", data_key=...): the    *)
(* default of data.                                                        *)
(***************************************************************************)
\* The outputs tried: nothing, blanks, plain text, and JSON documents of
\* every type, one of them with white space around it.
Stdouts ==
    {"", " ", "STDOUT", "{\"ret\": {\"a\": 1}}", " {\"ret\": {\"a\": 1}}\n",
     "{\"a\": 1}", "{}", "1", "0", "\"ret\"", "[\"ret\"]", "null"}

\* data_key: None or a key.
DataKeys == {"None", "ret", "a"}

\* str.strip
strip(s) ==
    CASE s = " " -> ""
      [] s = " {\"ret\": {\"a\": 1}}\n" -> "{\"ret\": {\"a\": 1}}"
      [] OTHER -> s

\* A Python value: its type, its JSON text, and what "key in value" is true
\* for (the keys of a dict, the items of a list, the substrings of a str).
PyNone == [t |-> "None", text |-> "None", has |-> {}]

\* json.loads: the value of a JSON document, ValueError for anything else.
json_loads(s) ==
    CASE s = "{\"ret\": {\"a\": 1}}" -> [t |-> "dict", text |-> s, has |-> {"ret"}]
      [] s = "{\"a\": 1}" -> [t |-> "dict", text |-> s, has |-> {"a"}]
      [] s = "{}" -> [t |-> "dict", text |-> s, has |-> {}]
      [] s = "1" -> [t |-> "int", text |-> s, has |-> {}]
      [] s = "0" -> [t |-> "int", text |-> s, has |-> {}]
      [] s = "\"ret\"" -> [t |-> "str", text |-> s, has |-> {"ret"}]
      [] s = "[\"ret\"]" -> [t |-> "list", text |-> s, has |-> {"ret"}]
      [] s = "null" -> PyNone
      [] OTHER -> [t |-> "ValueError", text |-> s, has |-> {}]

\* bool(value)
Truthy(v) == v.t # "None" /\ v.text \notin {"{}", "0"}

\* value[key] of a dict.
GetItem(v, key) ==
    CASE v.text = "{\"ret\": {\"a\": 1}}" /\ key = "ret" -> json_loads("{\"a\": 1}")
      [] v.text = "{\"a\": 1}" /\ key = "a" -> json_loads("1")

\* ProcessResult._default_data
default_data(stdout, data_key) ==
    LET stripped == IF stdout # "" THEN strip(stdout) ELSE "None"
        none == [data |-> PyNone, raised |-> "none"]
    IN IF stripped \in {"None", ""} THEN none
       ELSE LET data == json_loads(strip(stripped))
            IN IF data.t = "ValueError" THEN none
               ELSE IF ~(Truthy(data) /\ data_key # "None")
                 THEN [data |-> data, raised |-> "none"]
               \* "self.data_key in data"
               ELSE IF data.t = "int"
                 THEN [data |-> PyNone, raised |-> "TypeError"]
               ELSE IF data_key \notin data.has
                 THEN [data |-> data, raised |-> "none"]
               \* "data[self.data_key]"
               ELSE IF data.t = "dict"
                 THEN [data |-> GetItem(data, data_key), raised |-> "none"]
               ELSE [data |-> PyNone, raised |-> "TypeError"]

\* The test code constructs a ProcessResult.
NewProcessResult(stdout, stderr, cmd, data_key) ==
    /\ \E r \in {default_data(stdout, data_key)} :
         process_result' = [built |-> TRUE, stdout |-> stdout,
                            stderr |-> stderr, cmdline |-> cmd,
                            data_key |-> data_key, data |-> r.data,
                            raised |-> r.raised, str |-> << >>]
    /\ UNCHANGED <<listFrame, cached_ports, got_ports, callback, threads,
                   tpl, connections, osVars>>

\* The error outputs and the command lines tried: cmdline defaults to None
\* and may be an empty list.
Stderrs == {"", " ", "STDERR"}
CmdLines == {[set |-> FALSE, v |-> << >>], [set |-> TRUE, v |-> << >>],
             [set |-> TRUE, v |-> <<"1", "2", "3">>]}

\* Variant: the "Process Output" header is written whatever the streams hold.
ProcessResult__str___alwaysHeader(r) ==
    <<"ProcessResult">>
    \o (IF r.cmdline.set /\ r.cmdline.v # << >> THEN <<"Command Line">>
        ELSE << >>)
    \o <<"Returncode">>
    \o <<"Process Output">>
    \o (IF r.stdout # "" /\ strip(r.stdout) # "" THEN <<"STDOUT">> ELSE << >>)
    \o (IF r.stderr # "" /\ strip(r.stderr) # "" THEN <<"STDERR">> ELSE << >>)
    \o (IF Truthy(r.data) THEN <<"Parsed JSON Data">> ELSE << >>)

\* ProcessResult.__str__: the parts of the message, in the order they are
\* appended.  returncode is an int, never None.
ProcessResult__str__(r) ==
    <<"ProcessResult">>
    \o (IF r.cmdline.set /\ r.cmdline.v # << >> THEN <<"Command Line">>
        ELSE << >>)
    \o <<"Returncode">>
    \o (IF (r.stdout # "" /\ strip(r.stdout) # "")
           \/ (r.stderr # "" /\ strip(r.stderr) # "")
          THEN <<"Process Output">> ELSE << >>)
    \o (IF r.stdout # "" /\ strip(r.stdout) # "" THEN <<"STDOUT">> ELSE << >>)
    \o (IF r.stderr # "" /\ strip(r.stderr) # "" THEN <<"STDERR">> ELSE << >>)
    \o (IF Truthy(r.data) THEN <<"Parsed JSON Data">> ELSE << >>)

\* str(result) on a ProcessResult that was constructed.
StrProcessResult ==
    /\ process_result.built
    /\ process_result.raised = "none"
    /\ process_result.str = << >>
    /\ process_result' = [process_result EXCEPT
                            !.str = ProcessResult__str__(process_result)]
    /\ UNCHANGED <<listFrame, cached_ports, got_ports, callback, threads,
                   tpl, connections, osVars>>

InitResult ==
    /\ InitConfig
    /\ InitIdle
    /\ InitNoProcess
    /\ InitNoSide

NextResult ==
    \/ \E stdout \in Stdouts, stderr \in Stderrs, cmd \in CmdLines,
          data_key \in DataKeys :
         NewProcessResult(stdout, stderr, cmd, data_key)
    \/ StrProcessResult

SpecResult == InitResult /\ [][NextResult]_vars

(***************************************************************************)
(* customtypes.Callback: a function with captured arguments, invoked by    *)
(* the test code.                                                          *)
(***************************************************************************)
MaxInvocations == 2
KwargKeys == {"keyword_argument", "bar"}
\* dicts with keys among KwargKeys.
Kwargs == UNION {[D -> {"True", "False"}] : D \in SUBSET KwargKeys}
CapturedArgs == {<< >>, <<"a1", "a2">>}
GivenArgs == {<< >>, <<"bar">>}

\* dict.update on a copy.
Updated(d, other) ==
    [k \in DOMAIN d \cup DOMAIN other |->
       IF k \in DOMAIN other THEN other[k] ELSE d[k]]

\* Callback.__call__: what the wrapped function is called with.  args and
\* kwargs of the Callback default to None; "self.args or ()" covers the
\* first, copy.deepcopy(None).update(...) raises AttributeError.
Callback__call__(cb, args, kwargs) ==
    LET _args == args \o (IF cb.args.set THEN cb.args.v ELSE << >>)
    IN IF ~cb.kwargs.set
         THEN [given_args |-> args, given_kwargs |-> kwargs,
               func_args |-> << >>, func_kwargs |-> << >>,
               raised |-> "AttributeError"]
         ELSE [given_args |-> args, given_kwargs |-> kwargs,
               func_args |-> _args,
               func_kwargs |-> Updated(cb.kwargs.v, kwargs),
               raised |-> "none"]

\* callback(*args, **kwargs); the Callback is frozen and works on a copy of
\* its kwargs.
InvokeCallback(args, kwargs) ==
    /\ callback.calls < MaxInvocations
    /\ callback' = [callback EXCEPT
                      !.calls = @ + 1,
                      !.last = Callback__call__(callback, args, kwargs)]
    /\ UNCHANGED <<listFrame, cached_ports, got_ports, process_result,
                   threads, tpl, connections, osVars>>

InitCallback ==
    /\ InitConfig
    /\ InitIdle
    /\ InitNoProcess
    /\ tpl = NoTpl
    /\ check_ports = {}
    /\ listening = {}
    /\ connections = {}
    /\ cached_ports = {}
    /\ got_ports = << >>
    /\ process_result = NoProcessResult
    /\ threads = NoThreads
    /\ port_check = NoPortCheck
    /\ ctx = NoCtx
    /\ \E a \in [set : BOOLEAN, v : CapturedArgs],
          k \in [set : BOOLEAN, v : Kwargs] :
         /\ ~a.set => a.v = << >>
         /\ ~k.set => k.v = << >>
         /\ callback = [NoCallback EXCEPT !.args = a, !.kwargs = k]

NextCallback ==
    \E args \in GivenArgs, kwargs \in Kwargs : InvokeCallback(args, kwargs)

SpecCallback == InitCallback /\ [][NextCallback]_vars

(***************************************************************************)
(* get_unused_localhost_port(use_cache=True) called by two threads of the  *)
(* test code at once.  The socket is closed before the cache is looked at, *)
(* so the system may hand the same port to the other thread; nothing       *)
(* orders the membership test of one thread and the insertion of another.  *)
(***************************************************************************)
\* "usock.bind(("127.0.0.1", 0)); port = usock.getsockname()[1]", socket
\* closed.
PortBind(t, port) ==
    /\ threads[t].pc = "out"
    /\ threads' = [threads EXCEPT ![t].pc = "bound", ![t].port = port]
    /\ UNCHANGED <<listFrame, cached_ports, got_ports, process_result,
                   callback, tpl, connections, osVars>>

\* Variant: the port goes on whether it is in the cache or not.
PortInCache_ignored(port, cache) == FALSE

\* "if port in cached_ports"
PortInCache(port, cache) == port \in cache

\* The membership test: a cached port makes the function call itself, which
\* binds another socket.
PortTest(t) ==
    /\ threads[t].pc = "bound"
    /\ threads' = [threads EXCEPT
                     ![t].pc = IF PortInCache(threads[t].port, cached_ports)
                                 THEN "out" ELSE "tested",
                     ![t].seen = cached_ports]
    /\ UNCHANGED <<listFrame, cached_ports, got_ports, process_result,
                   callback, tpl, connections, osVars>>

\* "cached_ports.add(port); return port"
PortAdd(t) ==
    /\ threads[t].pc = "tested"
    /\ cached_ports' = cached_ports \cup {threads[t].port}
    /\ threads' = [threads EXCEPT ![t].pc = "returned",
                                  ![t].ret = threads[t].port]
    /\ UNCHANGED <<listFrame, got_ports, process_result, callback, tpl,
                   connections, osVars>>

InitThreads ==
    /\ kind = "Subprocess"
    /\ slow_stop = FALSE
    /\ timeout = NoneInt
    /\ max_start_attempts = 1
    /\ extra_cli_arguments_after_first_start_failure = << >>
    /\ InitIdle
    /\ InitNoProcess
    /\ tpl = NoTpl
    /\ check_ports = {}
    /\ listening = {}
    /\ connections = {}
    /\ cached_ports \in SUBSET EphemeralPorts
    /\ cached_ports # EphemeralPorts
    /\ got_ports = << >>
    /\ process_result = NoProcessResult
    /\ callback = NoCallback
    /\ threads = NoThreads
    /\ port_check = NoPortCheck
    /\ ctx = NoCtx

NextThreads ==
    \/ \E t \in PortThreads, port \in EphemeralPorts : PortBind(t, port)
    \/ \E t \in PortThreads : PortTest(t)
    \/ \E t \in PortThreads : PortAdd(t)

SpecThreads == InitThreads /\ [][NextThreads]_vars

(***************************************************************************)
(* Properties.                                                             *)
(***************************************************************************)
Max(S) == CHOOSE x \in S : \A y \in S : y <= x

\* The number of attempts a start() call is entitled to.
EffectiveAttempts == Or(start_args.max_start_attempts, max_start_attempts)

\* C1: when start() raises FactoryNotStarted after exhausting its attempts,
\* every process spawned by the call has been through terminate(), no handle
\* is held, is_running() is false, and the error carries the ProcessResult
\* of the last process attempted.
C1_TeardownBeforeNotStarted ==
    last = "start:FactoryNotStarted" =>
        /\ ret.kind = "raise" /\ ret.val = "FactoryNotStarted"
        /\ spawned_by_call # {}
        /\ spawned_by_call \subseteq terminated
        /\ \A p \in spawned_by_call : ~pid_exists(procs, p)
        /\ terminal = NoTerminal
        /\ ~is_running
        /\ ret.result # NoResult
        /\ ret.result.pid = Max(spawned_by_call)

C1_Witness ==
    /\ last = "start:FactoryNotStarted"
    /\ Cardinality(spawned_by_call) = 2
    /\ ret.result.pid = 2

\* C2: when run() exceeds its timeout, terminate() has run before
\* FactoryTimeout is raised: the handle is cleared, is_running() is false,
\* the spawned pid no longer exists, and the error carries the result that
\* terminate() produced for that process.
C2_TerminateBeforeTimeout ==
    last = "run:FactoryTimeout" =>
        /\ ret.kind = "raise" /\ ret.val = "FactoryTimeout"
        /\ terminal = NoTerminal
        /\ ~is_running
        /\ Cardinality(spawned_by_call) = 1
        /\ \A p \in spawned_by_call :
             /\ ~pid_exists(procs, p)
             /\ p \in terminated
             /\ ret.result.pid = p
        /\ ret.result = terminal_result

C2_Witness ==
    /\ last = "run:FactoryTimeout"
    /\ ret.result.pid = 2
    /\ ret.result.cmdline = cmdline(<<"-x">>)

\* C7: a start() entitled to k attempts whose readiness never succeeds logs
\* "Attempt i of k" for i = 1..k in order, spawns k processes, and raises
\* FactoryNotStarted naming k attempts.
C7_ExactlyKAttempts ==
    last = "start:FactoryNotStarted" =>
        /\ EffectiveAttempts >= 1
        /\ attempts_log = [i \in 1..EffectiveAttempts |->
                             [attempt |-> i, of |-> EffectiveAttempts]]
        /\ Cardinality(spawned_by_call) = EffectiveAttempts
        /\ ret.attempts = EffectiveAttempts

C7_Witness ==
    /\ last = "start:FactoryNotStarted"
    /\ max_start_attempts = 1
    /\ extra_cli_arguments_after_first_start_failure = << >>
    /\ start_args.max_start_attempts = 2
    /\ Len(attempts_log) = 2

TerminateCallbacks ==
    SeqToSet(BeforeTerminateCallbacks) \cup SeqToSet(AfterTerminateCallbacks)

\* C5: every before-terminate and after-terminate callback has run exactly
\* once per real termination of a spawned process, whatever other
\* terminate() calls were made.
C5_CallbacksOncePerRealTermination ==
    (kind = "Daemon" /\ pc = "idle") =>
        \A c \in TerminateCallbacks : cb_count[c] = real_terms

\* C8: a start() call that finds the daemon running returns True and leaves
\* the recorded start arguments, the handle, the sinks, the cached result,
\* the process table and every callback counter as they were.
C8_Step ==
    (last' = "start:already_running" /\ ncalls' # ncalls) =>
        /\ ret'.kind = "return" /\ ret'.val = "True"
        /\ pc' = "idle"
        /\ is_running'
        /\ UNCHANGED <<start_args, terminal, terminal_stdout, terminal_stderr,
                       terminal_result, children, procs, next_root, cb_count>>

C8_StartWhileRunningIsNoOp == [][C8_Step]_vars

C8_Witness ==
    /\ last = "start:already_running"
    /\ pc = "idle"
    /\ ret.val = "True"
    /\ call_args # start_args.args

IndexOf(seq, x) == CHOOSE i \in 1..Len(seq) : seq[i] = x

\* The checks that have returned True so far in this run_start_checks call.
ReturnedTrue ==
    check_true_before \cup
        (IF check_last.outcome = "True" THEN {check_last.id} ELSE {})

\* C9: in one run_start_checks call a check is invoked only after all the
\* checks before it returned True and never after it returned True itself;
\* a check that returned something else or raised is still the head of the
\* queue; the call returns True exactly when every check has returned True,
\* and False only past the deadline with checks remaining.
C9_ChecksFrontToBack ==
    /\ last = "checks:check" =>
          LET j == IndexOf(StartCheckCallbacks, check_last.id)
          IN /\ \A i \in 1..(j - 1) : StartCheckCallbacks[i] \in check_true_before
             /\ check_last.id \notin check_true_before
             /\ check_last.outcome # "True" =>
                   queue # << >> /\ Head(queue) = check_last.id
             /\ check_last.outcome = "True" =>
                   queue = SubSeq(StartCheckCallbacks, j + 1,
                                  Len(StartCheckCallbacks))
    /\ last = "checks:return" =>
          /\ checks_rv \in {"True", "False"}
          /\ checks_rv = "True" <=> ReturnedTrue = SeqToSet(StartCheckCallbacks)
          /\ checks_rv = "True" <=> queue = << >>
          /\ checks_rv = "False" => DeadlinePassed /\ queue # << >>

C9_Witness ==
    /\ last = "checks:check"
    /\ check_last = [id |-> "sc1", outcome |-> "Exception"]
    /\ check_true_before = {"_check_listening_ports"}
    /\ queue = <<"sc1">>

\* C10: a readiness check that raises FactoryNotStarted ends
\* run_start_checks at once: the exception reaches start(), which
\* terminates the attempt.
C10_NotStartedFromCheckAbortsAttempt ==
    (last = "checks:check" /\ check_last.outcome = "FactoryNotStarted") =>
        (pc = "start_checked" /\ checks_rv = "FactoryNotStarted")

C4_Step ==
    /\ last' = "_terminate:return" =>
          /\ terminal' = NoTerminal
          /\ terminal_stdout' = "None"
          /\ terminal_stderr' = "None"
          /\ children' = << >>
          /\ terminal_result' # NoResult
          /\ rv' = terminal_result'
    /\ (pc = "engine_terminate" /\ last' = "_terminate:cached") =>
          /\ terminal = NoTerminal
          /\ rv' = terminal_result
          /\ sigs' = {}
          /\ UNCHANGED <<terminal, terminal_stdout, terminal_stderr,
                         terminal_result, children, procs>>
    /\ terminal_result' # terminal_result =>
          last' \in {"init_terminal:popen", "_terminate:return"}
    /\ next_root = 1 =>
          /\ ~is_running
          /\ pid = 0
          /\ terminal_result = NoResult

C4_EngineTerminateIdempotent == [][C4_Step]_vars

C4_Witness ==
    /\ kind = "Subprocess"
    /\ op = "terminate"
    /\ ncalls = 3
    /\ last = "_terminate:cached"
    /\ ret.result # NoResult
    /\ ret.result = terminal_result
    /\ Cardinality(tree_at_terminate) > 1

IsPrefix(a, b) == Len(a) <= Len(b) /\ a = SubSeq(b, 1, Len(a))

FullTerminateOrder ==
    BeforeTerminateCallbacks \o <<"engine">> \o AfterTerminateCallbacks

\* C6: a real Daemon.terminate() runs the before-terminate callbacks, then
\* the engine's terminate, then the after-terminate callbacks, and it leaves
\* only when all of them have run, also when the engine's terminate raised.
C6_TerminateOrder ==
    kind = "Daemon" =>
        /\ IsPrefix(tlog, FullTerminateOrder)
        /\ pc \in {"engine_terminate", "engine_terminate2"} =>
              tlog = BeforeTerminateCallbacks
        /\ pc = "term_after" =>
              IsPrefix(BeforeTerminateCallbacks \o <<"engine">>, tlog)
        /\ pc \notin {"term_before", "engine_terminate", "engine_terminate2",
                       "term_after"} =>
              tlog \in {<< >>, FullTerminateOrder}

C6_Witness ==
    /\ kind = "Daemon"
    /\ last = "terminate:raise"
    /\ ret.kind = "raise"
    /\ ret.val = "AccessDenied"
    /\ tlog = FullTerminateOrder

\* C12: running the start checks leaves the permanent list of start-check
\* callbacks as it was registered: same callbacks, same order, after any
\* start(), successful or failed.
C12_PermanentChecksUntouched ==
    get_start_check_callbacks = StartCheckCallbacks

C12_Witness ==
    /\ last = "start:return"
    /\ check_true_before = {"_check_listening_ports"}
    /\ check_last = [id |-> "sc1", outcome |-> "True"]
    /\ queue = << >>
    /\ get_start_check_callbacks = StartCheckCallbacks

\* C11: the built-in port check returns True at once for an empty port set;
\* otherwise it returns True exactly when every configured port was found
\* connectable during the call, and it returns False only when the deadline
\* has passed with at least one port still unconfirmed.
C11_PortCheckResult ==
    pc = "port_check_return" =>
      /\ check_ports = {} => port_check.rv = "True"
      /\ port_check.rv = "True" => check_ports \subseteq port_check.confirmed
      /\ port_check.rv = "False" =>
            /\ DeadlinePassed
            /\ check_ports \ port_check.confirmed # {}

\* What stopped() does, in order, when given the callbacks cbs.
FullStoppedOrder(cbs) ==
    SelectSeq(<<"before_stop", "terminate", "after_stop", "body",
                "before_start", "start", "after_start">>,
              LAMBDA x : x \notin StoppedCallbacks \/ x \in cbs)

C14_StoppedNotRunning ==
    (ctx.flow = "stopped" /\ ~ctx.was_running) =>
      /\ ctx.phase = "done"
      /\ ctx.result = [kind |-> "raise", val |-> "FactoryNotRunning"]
      /\ ctx.log = << >>

C14_Witness ==
    /\ ctx.flow = "stopped"
    /\ ~ctx.was_running
    /\ ctx.cbs = StoppedCallbacks
    /\ ctx.result.val = "FactoryNotRunning"
    /\ terminal.pid # 0

\* C15: when the body inside stopped() raises ShellUtilsException the
\* exception goes on to the caller and nothing of the restart half happens:
\* no before_start, no start(), no after_start, the daemon stays stopped.
C15_SystemExceptionSkipsRestart ==
    (ctx.flow = "stopped" /\ ctx.body = "ShellUtilsException") =>
      /\ ctx.phase = "done"
      /\ ctx.result = [kind |-> "raise", val |-> "ShellUtilsException"]
      /\ SeqToSet(ctx.log) \cap {"before_start", "start", "after_start"} = {}
      /\ JustLeft => (~is_running /\ op = "terminate")

C15_Witness ==
    /\ ctx.flow = "stopped"
    /\ ctx.body = "ShellUtilsException"
    /\ ctx.cbs = StoppedCallbacks
    /\ ctx.log = <<"before_stop", "terminate", "after_stop", "body">>
    /\ ctx.phase = "done"

\* C16: started() is left only after terminate() has run, whether the body
\* ended normally, the body raised, or start() raised FactoryNotStarted (the
\* body then never runs); the daemon is then not running.
C16_StartedAlwaysTerminates ==
    (ctx.flow = "started" /\ ctx.phase = "done") =>
      /\ ctx.log \in {<<"start", "terminate">>, <<"start", "body", "terminate">>}
      /\ JustLeft => (~is_running /\ op = "terminate")
      /\ ctx.exc = "FactoryNotStarted" =>
           /\ "body" \notin SeqToSet(ctx.log)
           /\ ctx.result = [kind |-> "raise", val |-> "FactoryNotStarted"]
      /\ ctx.body \in {"ShellUtilsException", "Exception"} =>
           ctx.result = [kind |-> "raise", val |-> ctx.body]

C16_Witness ==
    /\ ctx.flow = "started"
    /\ ctx.phase = "done"
    /\ ctx.exc = "FactoryNotStarted"
    /\ ctx.log = <<"start", "terminate">>
    /\ ~is_running
    /\ real_terms >= 1

\* C17: "with daemon:" on a daemon that is not running raises RuntimeError
\* and runs neither the body nor terminate(); on a running daemon the body
\* runs and leaving it, normally or by an exception, terminates the daemon.
C17_WithDaemon ==
    ctx.flow = "with" =>
      /\ ~ctx.was_running =>
           /\ ctx.phase = "done"
           /\ ctx.result = [kind |-> "raise", val |-> "RuntimeError"]
           /\ ctx.log = << >>
      /\ ctx.was_running =>
           /\ IsPrefix(ctx.log, <<"body", "terminate">>)
           /\ ctx.phase = "done" =>
                /\ ctx.log = <<"body", "terminate">>
                /\ JustLeft => (~is_running /\ op = "terminate")

C17_Witness ==
    /\ ctx.flow = "with"
    /\ ctx.was_running
    /\ ctx.phase = "done"
    /\ ctx.body = "Exception"
    /\ ctx.result = [kind |-> "raise", val |-> "Exception"]
    /\ ~is_running

\* C18: terminate_process_list makes at most three steps over the list:
\* the first with the caller's kill and slow_stop, the second with
\* kill = (slow_stop is false) and the caller's slow_stop, the third with
\* kill = true and slow_stop = false; there is no fourth.
C18_AtMostThreeRounds ==
    tpl.phase = "done" =>
      LET r == tpl.out.rounds
      IN /\ Len(r) \in 1..3
         /\ r[1] = [n |-> 1, kill |-> tpl.kill, slow_stop |-> tpl.slow_stop]
         /\ Len(r) >= 2 =>
              r[2] = [n |-> 2, kill |-> ~tpl.slow_stop,
                      slow_stop |-> tpl.slow_stop]
         /\ Len(r) >= 3 =>
              r[3] = [n |-> 3, kill |-> TRUE, slow_stop |-> FALSE]

C18_Witness ==
    /\ tpl.phase = "done"
    /\ Len(tpl.out.rounds) = 3
    /\ tpl.slow_stop
    /\ ~tpl.kill
    /\ tpl.out.sent[3] # {}

\* C19 as stated: whatever the caller asked for, every signal of the second
\* step of terminate_process_list is a kill.
C19_Round2AlwaysKills ==
    (tpl.phase = "done" /\ Len(tpl.out.sent) >= 2) =>
      \A s \in tpl.out.sent[2] : s.signal = "SIGKILL"

\* C19, amended: the second step of terminate_process_list kills exactly
\* when slow_stop is false; with slow_stop it sends SIGTERM again, and the
\* kill comes with the third step.
C19_Round2KillsUnlessSlowStop ==
    (tpl.phase = "done" /\ Len(tpl.out.sent) >= 2) =>
      /\ \A s \in tpl.out.sent[2] :
           s.signal = IF tpl.slow_stop THEN "SIGTERM" ELSE "SIGKILL"
      /\ Len(tpl.out.sent) >= 3 =>
           \A s \in tpl.out.sent[3] : s.signal = "SIGKILL"

C19_Witness ==
    /\ tpl.phase = "done"
    /\ tpl.slow_stop
    /\ ~tpl.kill
    /\ Len(tpl.out.sent) = 3
    /\ \E q \in Pids :
         /\ [pid |-> q, signal |-> "SIGTERM"] \in tpl.out.sent[2]
         /\ [pid |-> q, signal |-> "SIGKILL"] \in tpl.out.sent[3]

\* C20: a further step of terminate_process_list and its final warning
\* happen only when a listed process is still alive after the wait of the
\* step before, and processes alive after the third step give the warning
\* and no exception.
C20_OnlySurvivorsTriggerRounds ==
    tpl.phase = "done" =>
      LET o == tpl.out
      IN /\ \A i \in 1..(Len(o.rounds) - 1) : o.alive_after[i] # {}
         /\ o.warned => o.alive_after[Len(o.alive_after)] # {}
         /\ (Len(o.rounds) = 3 /\ o.alive_after[3] # {}) =>
              (o.warned /\ o.raised = "none")

\* C21: terminate_process hands its target to the round algorithm whether
\* the target was given as a pid or as a process, together with the target's
\* descendants and the supplied children when kill_children is in effect,
\* kill_children left unset counting as true exactly when slow_stop is
\* false; the target is not alive afterwards unless an error was raised.
C21_TargetInList ==
    (tpl.phase = "done_process" /\ tpl.call.existed) =>
      LET c == tpl.call
          effective == c.kill_children = "True"
                       \/ (c.kill_children = "None" /\ ~tpl.slow_stop)
      IN /\ c.target \in SeqToSet(tpl.list)
         /\ effective =>
              (c.tree \cup SeqToSet(c.children)) \subseteq SeqToSet(tpl.list)
         /\ ~effective => tpl.list = <<c.target>>
         /\ tpl.out.raised = "none" => ~IsAlive(procs, c.target)

\* C22: a process of the list that has vanished, or that the caller has no
\* permission to signal, counts as done in the kill path and in the graceful
\* path: with nothing else going wrong terminate_process_list raises nothing.
C22_BenignErrorsTolerated ==
    tpl.phase = "done" => tpl.out.raised = "none"

C24_Step ==
    cb_count' # cb_count =>
        LET cbs == CASE pc = "start_before" -> BeforeStartCallbacks
                     [] pc = "start_after" -> AfterStartCallbacks
                     [] pc = "term_before" -> BeforeTerminateCallbacks
                     [] pc = "term_after" -> AfterTerminateCallbacks
                     [] OTHER -> << >>
        IN /\ cb_i <= Len(cbs)
           /\ cb_count' = [cb_count EXCEPT ![cbs[cb_i]] = @ + 1]
           /\ cb_i' = cb_i + 1
           /\ pc' = pc
           /\ UNCHANGED <<stack, ret, rv, engine_exc, engVars, osVars,
                          start_args, startLocals>>

C24_CallbackExceptionCaught ==
    /\ [][C24_Step]_vars
    /\ [](pc = "idle" =>
            \A cbs \in {BeforeStartCallbacks, AfterStartCallbacks,
                        BeforeTerminateCallbacks, AfterTerminateCallbacks} :
              \A i, j \in 1..Len(cbs) : cb_count[cbs[i]] = cb_count[cbs[j]])

\* The first before-terminate callback has raised and the second is next.
C24_Witness ==
    /\ last = "before_terminate:caught"
    /\ pc = "term_before"
    /\ cb_i = 2

\* C25: in start() the before-start callbacks run one after the other in
\* registration order at the beginning of every attempt, and the attempt
\* spawns only when all of them have run; the after-start callbacks run one
\* after the other in registration order once the loop was left with a
\* running process, then start() returns; a start() that is going to raise
\* runs none of them.
C25_Step ==
    /\ \A c \in SeqToSet(BeforeStartCallbacks) :
         cb_count'[c] # cb_count[c] =>
           /\ pc = "start_before" /\ cb_i <= Len(BeforeStartCallbacks)
           /\ c = BeforeStartCallbacks[cb_i]
           /\ cb_count'[c] = cb_count[c] + 1
           /\ cb_i' = cb_i + 1
    /\ (pc' = "start_before" /\ pc # "start_before") =>
           /\ pc = "start_loop" /\ ~process_running
           /\ current_attempt' = current_attempt + 1
           /\ current_attempt' <= start_attempts
           /\ cb_i' = 1
    /\ (pc = "start_before" /\ pc' # "start_before") =>
           /\ cb_i > Len(BeforeStartCallbacks)
           /\ pc' = "start_spawn"
    /\ (pc' = "start_spawn" /\ pc # "start_spawn") => pc = "start_before"
    /\ (op = "start" /\ pc' = "popen" /\ pc # "popen") => pc = "start_spawn"
    /\ \A c \in SeqToSet(AfterStartCallbacks) :
         cb_count'[c] # cb_count[c] =>
           /\ pc = "start_after" /\ cb_i <= Len(AfterStartCallbacks)
           /\ c = AfterStartCallbacks[cb_i]
           /\ cb_count'[c] = cb_count[c] + 1
           /\ cb_i' = cb_i + 1
    /\ (pc' = "start_after" /\ pc # "start_after") =>
           /\ pc = "start_loop" /\ process_running
           /\ cb_i' = 1
    /\ (pc = "start_after" /\ pc' # "start_after") =>
           /\ cb_i > Len(AfterStartCallbacks)
           /\ pc' = "idle"
           /\ ret'.op = "start" /\ ret'.kind = "return"
    /\ (pc = "start_raise" /\ pc' # "start_raise") =>
           /\ ~process_running
           /\ ret'.op = "start" /\ ret'.kind = "raise"
           /\ cb_count' = cb_count

C26_OverrideAlwaysUsed ==
    op = "run" =>
        terminal_timeout = (IF _timeout # NoneInt THEN _timeout ELSE timeout)

\* C27: the ports returned by calls with use_cache=True are pairwise
\* distinct, and the cache is the set of the ports returned by such calls.
C27_CachedPortsDistinct ==
    LET cached == {i \in 1..Len(got_ports) : got_ports[i].use_cache}
    IN /\ \A i, j \in cached :
            got_ports[i].port = got_ports[j].port => i = j
       /\ cached_ports = {got_ports[i].port : i \in cached}

\* Two cached calls have returned, one of them after it met a cached port.
C27_Witness ==
    /\ \E i, j \in 1..Len(got_ports) :
         /\ i < j
         /\ got_ports[i].use_cache /\ got_ports[j].use_cache
         /\ got_ports[j].tries > 1
    /\ \E i \in 1..Len(got_ports) :
         ~got_ports[i].use_cache /\ got_ports[i].port \in cached_ports

\* C28: whenever the caller can look, a factory that is not running has no
\* pid.
C28_PidNoneWhenNotRunning ==
    (pc = "idle" /\ ~is_running) => pid = 0

\* C29: a run() or start() whose script does not resolve or does not exist
\* raises FileNotFoundError when it is about to spawn, and the handle, the
\* sinks, the cached result, the children and the processes are what they
\* were.
C29_Step ==
    (pc = "popen" /\ last' = "cmdline:FileNotFoundError") =>
        /\ op \in {"run", "start"}
        /\ pc' = "idle"
        /\ ret' = [op |-> op, kind |-> "raise", val |-> "FileNotFoundError",
                   result |-> NoResult, attempts |-> 0]
        /\ UNCHANGED <<terminal, terminal_stdout, terminal_stderr,
                       terminal_result, children, procs, next_root,
                       spawned_by_call>>

C29_MissingScriptLeavesEngine == [][C29_Step]_vars

\* start() on a daemon whose process has died has failed on the script, the
\* stale handle is still there.
C29_Witness ==
    /\ pc = "idle"
    /\ ret.val = "FileNotFoundError"
    /\ ret.op = "start"
    /\ terminal.pid # 0

\* C30: data is the value under data_key when the output is a JSON mapping
\* that has the key, the whole decoded value when the output is JSON and
\* data_key is None or not a key of it, and None when the output is empty or
\* is not JSON; the constructor does not raise.
C30_DataDefault ==
    process_result.built =>
        LET out == strip(process_result.stdout)
            key == process_result.data_key
            decoded == json_loads(out)
        IN /\ process_result.raised = "none"
           /\ process_result.data =
                IF out = "" \/ decoded.t = "ValueError" THEN PyNone
                ELSE IF decoded.t = "dict" /\ key # "None" /\ key \in decoded.has
                  THEN GetItem(decoded, key)
                ELSE decoded

\* C31: an invocation calls the function with the given positional
\* arguments followed by the captured ones and with the captured keyword
\* arguments overridden by the given ones, whatever was captured.
C31_CallbackMerges ==
    callback.calls > 0 =>
        LET inv == callback.last
            captured_args == IF callback.args.set THEN callback.args.v
                             ELSE << >>
            captured_kwargs == IF callback.kwargs.set THEN callback.kwargs.v
                               ELSE << >>
        IN /\ inv.raised = "none"
           /\ inv.func_args = inv.given_args \o captured_args
           /\ DOMAIN inv.func_kwargs =
                DOMAIN captured_kwargs \cup DOMAIN inv.given_kwargs
           /\ \A k \in DOMAIN inv.func_kwargs :
                inv.func_kwargs[k] =
                  IF k \in DOMAIN inv.given_kwargs THEN inv.given_kwargs[k]
                  ELSE captured_kwargs[k]

\* C32: the rendering of a ProcessResult is the header, the command line
\* when there is one, the return code, the output header when one of the
\* streams is not blank, the STDOUT block when stdout is not blank, the
\* STDERR block when stderr is not blank and the parsed data when there is
\* some, in this order and each at most once.
C32_StrSections ==
    process_result.str # << >> =>
        LET r == process_result
            str == r.str
            Has(x) == \E i \in 1..Len(str) : str[i] = x
            Blank(x) == x \in {"", " "}
            order == <<"ProcessResult", "Command Line", "Returncode",
                       "Process Output", "STDOUT", "STDERR",
                       "Parsed JSON Data">>
            Rank(x) == CHOOSE n \in 1..Len(order) : order[n] = x
        IN /\ \A i \in 1..Len(str) : \E n \in 1..Len(order) : order[n] = str[i]
           /\ \A i, j \in 1..Len(str) : i < j => Rank(str[i]) < Rank(str[j])
           /\ str[1] = "ProcessResult"
           /\ Has("Command Line") <=> (r.cmdline.set /\ Len(r.cmdline.v) > 0)
           /\ Has("Returncode")
           /\ Has("Process Output") <=> (~Blank(r.stdout) \/ ~Blank(r.stderr))
           /\ Has("STDOUT") <=> ~Blank(r.stdout)
           /\ Has("STDERR") <=> ~Blank(r.stderr)
           /\ Has("Parsed JSON Data") <=>
                (r.data.t # "None" /\ r.data.text \notin {"{}", "0"})
           /\ (r.stdout = "" /\ r.stderr = "") => ~Has("Process Output")

\* A result with a command line, both streams and parsed data was rendered.
C32_Witness ==
    /\ process_result.str # << >>
    /\ Len(process_result.str) = 7

C34_ExitHook ==
    /\ atexit > 0 => terminal # NoTerminal
    /\ last = "terminate:return" => atexit = 0

\* A terminate() has returned after two spawns of which it tore down the
\* second only.
C34_Witness ==
    /\ last = "terminate:return"
    /\ next_root = 3
    /\ real_terms = 1
    /\ atexit = 0

\* C35: nothing locks the cache.  A call returns a port that was not in the
\* cache when the call looked, so two calls that return the same port have
\* both looked before either has inserted it; with a call at a time this
\* cannot happen, with two threads it does.
C35_DuplicateNeedsInterleaving ==
    /\ \A t \in PortThreads :
         threads[t].pc \in {"tested", "returned"} =>
           threads[t].port \notin threads[t].seen
    /\ \A t \in PortThreads :
         threads[t].pc = "returned" => threads[t].ret \in cached_ports
    /\ \A t, u \in PortThreads :
         (t # u /\ threads[t].pc = "returned" /\ threads[u].pc = "returned"
          /\ threads[t].ret = threads[u].ret) =>
           /\ threads[t].ret \notin threads[u].seen
           /\ threads[u].ret \notin threads[t].seen

\* Both threads have returned the same port.
C35_Witness ==
    /\ threads[1].pc = "returned"
    /\ threads[2].pc = "returned"
    /\ threads[1].ret = threads[2].ret

\* Inside a start(): no more than start_attempts attempts have begun, and an
\* attempt is given up for the deadline, for the death of the process or for
\* a check that found it dead.
C36_AttemptsBounded ==
    op = "start" =>
      /\ Len(attempts_log) <= start_attempts
      /\ current_attempt <= start_attempts + 1
      /\ (pc = "terminate" /\ stack = <<"start_loop">>) =>
           last \in {"start:deadline", "start:died", "start:not_started"}
      /\ last = "start:deadline" => clock > StartTimeout

\* start() is over: it has returned True or raised FactoryNotStarted.
C36_StartOver ==
    /\ pc = "idle"
    /\ ret.op = "start"
    /\ \/ ret.kind = "return" /\ ret.val = "True"
       \/ ret.kind = "raise" /\ ret.val = "FactoryNotStarted"

\* C36: when time advances and the callbacks and checks return, every start()
\* comes to an end, by returning True or by raising FactoryNotStarted, after
\* at most max_start_attempts attempts.
C36_StartTerminates ==
    /\ [](C36_AttemptsBounded)
    /\ (op = "start" /\ pc # "idle") ~> C36_StartOver

\* A start() has used every attempt of two and raised.
C36_Witness ==
    /\ C36_StartOver
    /\ ret.kind = "raise"
    /\ start_attempts = 2
    /\ Len(attempts_log) = 2
    /\ next_root = 3

\* C37: the list that terminate_process_list works on has every pid of the
\* list it was given, each one once, and no step signals a process twice.
C37_Deduplicated ==
    tpl.phase = "done" =>
      LET dd == tpl.out.deduped
      IN /\ \A i, j \in 1..Len(dd) : i # j => dd[i] # dd[j]
         /\ SeqToSet(dd) = SeqToSet(tpl.list)
         /\ \A i \in 1..Len(tpl.out.counts) :
              \A q \in Pids : tpl.out.counts[i][q] <= 1

\* A list that names a live process twice was terminated: one entry was
\* left, and the process got one signal.
C37_Witness ==
    /\ tpl.phase = "done"
    /\ Len(tpl.list) = 2
    /\ tpl.list[1] = tpl.list[2]
    /\ Len(tpl.out.deduped) = 1
    /\ tpl.out.raised = "none"
    /\ tpl.out.counts # << >>
    /\ tpl.out.counts[1][tpl.list[1]] = 1

\* C38: whenever a start() attempt spawns, the factory holds no handle of an
\* earlier process: what it held has been through terminate(), which resets
\* the handle.
C38_SpawnHoldsNoHandle ==
    [][(op = "start" /\ pc = "popen" /\ pc' = "init_wait")
         => terminal = NoTerminal]_vars

\* C39: between operations, and whenever terminate() is entered, a cached
\* result means that the factory holds no handle: the short cut of
\* Daemon.terminate() is never taken over a process that still has to be
\* terminated.
C39_ResultExcludesHandle ==
    (pc \in {"idle", "terminate"} /\ terminal_result # NoResult)
      => terminal = NoTerminal

\* The short cut was taken: a second terminate() after a spawn and its
\* termination returned the cached result.
C39_Witness ==
    /\ kind = "Daemon"
    /\ pc = "idle"
    /\ last = "terminate:cached"
    /\ terminal_result # NoResult
    /\ terminal = NoTerminal
    /\ real_terms = 1

\* C40: as long as a Daemon has spawned no process, no before-terminate and
\* no after-terminate callback has run (the sweep over the check ports among
\* them), and a terminate() that has returned has returned None.
C40_TerminateBeforeSpawnIsInert ==
    (kind = "Daemon" /\ next_root = 1) =>
      /\ \A c \in TerminateCallbacks : cb_count[c] = 0
      /\ (pc = "idle" /\ op = "terminate" /\ ret # NoRet) =>
           (ret.kind = "return" /\ ret.result = NoResult)

====
